---- MODULE Spec2Model ----
(***************************************************************************)
(* A model of the QUIC engine core, src/src/liblsquic/lsquic_engine.c:     *)
(* the connection registry, the tickable and outgoing heaps, the advisory  *)
(* tick time queue, the reference flags of each connection, ingress,       *)
(* egress batching and the processing loop.                                *)
(*                                                                         *)
(* The engine is single threaded.  A public call is modelled as a sequence *)
(* of steps (pc): one step per loop iteration that consumes an answer of a *)
(* connection or of the host (tick result, next packet, encryption result, *)
(* packets_out return value, is_tickable, next_tick_time).  Between two    *)
(* steps the hooks a connection callback can call back into the engine     *)
(* (add_conn_to_tickable, add_conn_to_attq) may run.  The wall clock is    *)
(* read by the code through lsquic_time_now(); every read may find that    *)
(* time has passed.                                                        *)
(***************************************************************************)
EXTENDS Integers, Sequences, FiniteSets, TLC

\* ------------------------------------------------------------------ bounds
\* Connections ever created by one engine: in Spec and SpecEgress, and in the
\* specifications of several connections.
MaxConns == 1
ManyConns == 2
\* Connections ever created in SpecGrow, where the heaps grow.
GrowConns == 5
\* Packets a connection holds ready to send at one time: in Spec, and in
\* SpecEgress, where a batch of MIN_OUT_BATCH_SIZE packets is to leave one
\* packet over.
MaxPkts == 2
MaxBatchPkts == 5
\* Packets each of several connections holds ready to send at one time.
ManyPkts == 1
\* The queries: the offsets count_attq is asked about and the times of the
\* ATTQ are at most MaxOffset; a time has at most MaxHi times 2^31
\* microseconds.
MaxOffset == 2
MaxHi == 2
\* Microsecond steps, and one-second jumps, the clock is seen to make.
MaxTicks == 1
MaxJumps == 1
\* Datagrams in one buffer handed to packet_in.
MaxDgrams == 2
\* Destructions of one connection object the model follows.
MaxDestroys == 2

\* ------------------------------------------------------- program constants
MAX_OUT_BATCH_SIZE == 1024
MIN_OUT_BATCH_SIZE == 4
INITIAL_OUT_BATCH_SIZE == 32
\* send_batch: resume_sending_at = now + 1000000
RESUME_DELAY == 1000000
\* maybe_grow_conn_heaps: the first allocation holds 8 elements, 4 per heap
INITIAL_HEAP_COUNT == 8

Conns == 1 .. GrowConns
NULL == 0

\* enum lsquic_conn_flags, the bits the engine reads or writes
LSCONN_HASHED == "HASHED"
LSCONN_HAS_OUTGOING == "HAS_OUTGOING"
LSCONN_TICKABLE == "TICKABLE"
LSCONN_TICKED == "TICKED"
LSCONN_CLOSING == "CLOSING"
LSCONN_ATTQ == "ATTQ"
LSCONN_COI_ACTIVE == "COI_ACTIVE"
LSCONN_COI_INACTIVE == "COI_INACTIVE"
LSCONN_NEVER_TICKABLE == "NEVER_TICKABLE"
LSCONN_EVANESCENT == "EVANESCENT"

CONN_REF_FLAGS ==
    {LSCONN_HASHED, LSCONN_HAS_OUTGOING, LSCONN_TICKABLE, LSCONN_TICKED,
     LSCONN_CLOSING, LSCONN_ATTQ}

\* enp_flags and engine->flags
ENPUB_PROC == "PROC"
ENPUB_CAN_SEND == "CAN_SEND"
ENG_SERVER == "SERVER"
ENG_PAST_DEADLINE == "PAST_DEADLINE"
ENG_CONNS_BY_ADDR == "CONNS_BY_ADDR"
ENG_DTOR == "DTOR"

\* enum tick_st
TICK_SEND == "SEND"
TICK_CLOSE == "CLOSE"

\* enum enc_packout
ENCPA_OK == "OK"
ENCPA_NOMEM == "NOMEM"
ENCPA_BADCRYPT == "BADCRYPT"

\* errno
EINVAL == "EINVAL"

VARIABLES
    clock,          \* the last value lsquic_time_now() returned
    pc,             \* position of the public call in progress, or "idle"
    engine,         \* struct lsquic_engine
    conns,          \* the connections: what the engine observes of each
    proc,           \* the public call in progress: its locals now and i
    ticked_conns,   \* process_connections: the transient ticked list
    closed_conns,   \* the transient closed list
    iter,           \* send_packets_out: struct conns_out_iter
    out,            \* send_packets_out: its locals and the batch
    obs,            \* what the host and the connections saw of the call
    env             \* what the host and the connections may answer

vars == <<clock, pc, engine, conns, proc, ticked_conns, closed_conns,
          iter, out, obs, env>>

\* ---------------------------------------------------------------- helpers
Min(a, b) == IF a < b THEN a ELSE b

\* An unsigned counter is kept as the integer congruent to it modulo 2^32
\* that is nearest to 0: -1 stands for UINT_MAX.  UnsignedLT is < on the
\* counters two such integers stand for.
UnsignedLT(a, b) == IF (a < 0) = (b < 0) THEN a < b ELSE b < 0

RECURSIVE SeqRemove(_, _)
\* TAILQ_REMOVE / STAILQ_REMOVE: the list without its first occurrence of x
SeqRemove(s, x) ==
    IF s = <<>> THEN <<>>
    ELSE IF Head(s) = x THEN Tail(s)
    ELSE <<Head(s)>> \o SeqRemove(Tail(s), x)

InSeq(s, x) == \E k \in 1 .. Len(s) : s[k] = x

Count(s, x) == Cardinality({k \in 1 .. Len(s) : s[k] = x})

\* ----------------------------------------------------- min heap (C2, C3)
\* A heap is kept as the sequence of its <<key, conn>> elements in
\* ascending order; pop removes an element of minimal key.
HeapLE(a, b) == a[1] < b[1] \/ (a[1] = b[1] /\ a[2] <= b[2])

lsquic_mh_insert(heap, conn, key) ==
    LET el == <<key, conn>>
        k == Cardinality({j \in 1 .. Len(heap) : HeapLE(heap[j], el)})
    IN SubSeq(heap, 1, k) \o <<el>> \o SubSeq(heap, k + 1, Len(heap))

lsquic_mh_count(heap) == Len(heap)

\* The elements lsquic_mh_pop may return: those of minimal key.
MhMinimal(heap) == {j \in 1 .. Len(heap) : heap[j][1] = heap[1][1]}

MhRemoveAt(heap, j) == SubSeq(heap, 1, j - 1) \o SubSeq(heap, j + 1, Len(heap))

HeapConns(heap) == {heap[j][2] : j \in 1 .. Len(heap)}

HeapCount(heap, c) == Cardinality({j \in 1 .. Len(heap) : heap[j][2] = c})

\* ------------------------------------------- advisory tick time queue (C4)
\* The queue is the set of its <<time, conn>> entries.
AttqConns(q) == {el[2] : el \in q}

attq_add(q, conn, t) == q \cup {<<t, conn>>}

attq_remove(q, conn) == {el \in q : el[2] # conn}

\* lsquic_conn_adv_time: the time a queued connection is queued for
lsquic_conn_adv_time(q, conn) ==
    IF conn \in AttqConns(q) THEN (CHOOSE el \in q : el[2] = conn)[1] ELSE 0

\* The entries attq_pop(q, cutoff) may return: an earliest one, if it is due.
AttqDue(q, cutoff) ==
    {el \in q : el[1] <= cutoff /\ \A o \in q : el[1] <= o[1]}

attq_next_time(q) ==
    IF q = {} THEN NULL ELSE (CHOOSE el \in q : \A o \in q : el[1] <= o[1])[1]

\* ------------------------------------------------- connection hash (C1)
\* The hash is the set of its <<key, conn>> entries.  In by-address mode the
\* key is the local port; otherwise it is the connection ID of a CCE.
HashConns(h) == {el[2] : el \in h}

lsquic_hash_find(h, key) ==
    IF \E el \in h : el[1] = key
    THEN (CHOOSE el \in h : el[1] = key)[2] ELSE NULL

\* The connection ID of CCE 0 of a connection.
Cid(conn) == <<"cid", conn>>

\* sa2key: the key is just the local port number
sa2key(port) == <<"port", port>>


\* ------------------------------------------------------- the state record
\* The operations below are functions of W, the state the code works on:
\* e the engine, cn the connections, tk and cl the transient lists of
\* process_connections, it the outgoing iterator, o the locals of
\* send_packets_out, p the locals of the public call, ob the observations.
Cur ==
    [e |-> engine, cn |-> conns, tk |-> ticked_conns, cl |-> closed_conns,
     it |-> iter, o |-> out, p |-> proc, ob |-> obs]

\* An assert() of the code that does not hold: the program aborts.
Fail(W, what) == IF W.ob.failed = "" THEN [W EXCEPT !.ob.failed = what] ELSE W

NoConn ==
    [st |-> "none", cn_flags |-> {}, cn_last_ticked |-> 0, cn_last_sent |-> 0,
     n_pkts |-> 0, port |-> 0, sa_peer |-> 0, cn_peer_ctx |-> 0,
     n_destroyed |-> 0]

NoIter ==
    [coi_active_list |-> <<>>, coi_inactive_list |-> <<>>, coi_next |-> NULL,
     coi_last_sent |-> 0]

NoOut ==
    [batch |-> <<>>, n_batches_sent |-> 0, shrink |-> FALSE,
     deadline_exceeded |-> FALSE]

\* sa_peer, peer_ctx: the peer address and the peer context the host passes
\* to lsquic_engine_connect and lsquic_engine_packet_in
NoProc ==
    [caller |-> "none", now |-> 0, i |-> 0, sa_peer |-> 0, peer_ctx |-> 0]

\* What is seen of the public call in progress.  failed: the assert() that
\* failed; callbacks: a capability of a connection or a callback of the host
\* was invoked; po_calls, po_accepted: the calls of packets_out and the
\* packets it accepted; flush: the last call of packets_out, the packets
\* submitted, the value returned, the time send_batch stamped them with and
\* the batch size in force; full_ok: the full batches accepted whole while
\* the deadline was not exceeded; entry: what the drain, and a call that
\* finds nothing to tick, found on entry (conns: cn_last_sent and the ready
\* packets of the connections of C3); failsafe: the call re-enabled
\* sending after the timeout.  pending outlives the call: a refusal of
\* packets_out that neither send_unsent_packets nor a process_conns past
\* resume_sending_at has followed yet.  log: the calls of capabilities and
\* callbacks in the order they were made, see Event; buf, port, ret,
\* errno: the buffer handed to packet_in and the local port it came in on,
\* the value packet_in returned and the errno it set; query: what a
\* function that changes nothing was asked, ret being its answer;
\* requeue: the last call of add_conn_to_attq a callback made on each
\* connection that changed the ATTQ, see Requeue.
NoFlush == [n |-> 0, ret |-> 0, now |-> 0, batch_size |-> 0]

NoEntry == [last_sent |-> 0, batch_size |-> 0, idle |-> <<>>, conns |-> <<>>]

NoObs ==
    [failed |-> "", callbacks |-> FALSE, po_calls |-> 0, po_accepted |-> 0,
     flush |-> NoFlush, full_ok |-> 0, entry |-> NoEntry, failsafe |-> FALSE,
     pending |-> FALSE, log |-> <<>>, buf |-> <<>>, port |-> 0, ret |-> 0,
     errno |-> "", query |-> <<>>, requeue |-> {}]

ResetObs(ob) == [NoObs EXCEPT !.failed = ob.failed, !.pending = ob.pending]

Callback(W) == [W EXCEPT !.ob.callbacks = TRUE]

\* An entry of the log: ev names the call, conn is the connection it is
\* made on or for, i the batch slot (0-based) or the datagram it is about
\* (-1: a packet that is in no slot, or a call that is about none) and v
\* a value passed or returned (for a tick, whether it closes).
Event(ev, conn, i, v) == [ev |-> ev, conn |-> conn, i |-> i, v |-> v]

Logged(W, ev, conn, i, v) ==
    [W EXCEPT !.ob.log = Append(@, Event(ev, conn, i, v))]

\* ------------------------------------------------- reference tracker (C5)
engine_incref_conn(W, conn, flag) ==
    LET W1 == IF flag \in W.cn[conn].cn_flags
              THEN Fail(W, "engine_incref_conn: flag is set") ELSE W
    IN [W1 EXCEPT !.cn[conn].cn_flags = @ \cup {flag}]

\* ci_destroy: the connection frees itself.  The freed memory keeps what
\* was written to it.
ci_destroy(cn) ==
    [cn EXCEPT !.st = "destroyed", !.n_destroyed = @ + 1]

destroy_conn(W, conn) ==
    [Callback(W) EXCEPT !.e.n_conns = @ - 1,
              !.cn[conn] = ci_destroy(
                  [W.cn[conn] EXCEPT !.cn_flags = @ \cup {LSCONN_NEVER_TICKABLE}])]

\* The test of engine_decref_conn that decides the destruction.
Unreferenced(cn_flags) == cn_flags \cap CONN_REF_FLAGS = {}

engine_decref_conn(W, conn, flag) ==
    LET W1 == IF flag \notin W.cn[conn].cn_flags
              THEN Fail(W, "engine_decref_conn: flag is not set")
              ELSE IF flag = LSCONN_CLOSING /\ LSCONN_HASHED \in W.cn[conn].cn_flags
              THEN Fail(W, "engine_decref_conn: closing and hashed")
              ELSE W
        W2 == [W1 EXCEPT !.cn[conn].cn_flags = @ \ {flag}]
    IN IF Unreferenced(W2.cn[conn].cn_flags) THEN destroy_conn(W2, conn) ELSE W2

\* What engine_decref_conn has just returned: NULL if it destroyed the
\* connection.
Gone(W, conn) == Unreferenced(W.cn[conn].cn_flags)

\* An erroneous remove_conn_from_hash, which leaves HASHED set.
remove_conn_from_hash_only(W, conn) ==
    [W EXCEPT !.e.conns_hash = {el \in @ : el[2] # conn}]

remove_conn_from_hash(W, conn) ==
    engine_decref_conn(
        [W EXCEPT !.e.conns_hash = {el \in @ : el[2] # conn}],
        conn, LSCONN_HASHED)

\* ------------------------------------------------------ the exported hooks
\* An erroneous lsquic_engine_add_conn_to_tickable, without the test of
\* PROC.
add_conn_to_tickable_in_proc(W, conn) ==
    IF W.cn[conn].cn_flags \cap {LSCONN_TICKABLE, LSCONN_NEVER_TICKABLE} = {}
    THEN engine_incref_conn(
            [W EXCEPT !.e.conns_tickable =
                lsquic_mh_insert(@, conn, W.cn[conn].cn_last_ticked)],
            conn, LSCONN_TICKABLE)
    ELSE W

lsquic_engine_add_conn_to_tickable(W, conn) ==
    IF ENPUB_PROC \notin W.e.enp_flags
       /\ W.cn[conn].cn_flags \cap {LSCONN_TICKABLE, LSCONN_NEVER_TICKABLE} = {}
    THEN engine_incref_conn(
            [W EXCEPT !.e.conns_tickable =
                lsquic_mh_insert(@, conn, W.cn[conn].cn_last_ticked)],
            conn, LSCONN_TICKABLE)
    ELSE W

\* An erroneous lsquic_engine_add_conn_to_attq, without the test of TICKABLE
\* that keeps a connection about to be ticked out of the ATTQ.
add_conn_to_attq_untested(W, conn, tick_time, add_ok) ==
    IF LSCONN_ATTQ \in W.cn[conn].cn_flags
    THEN IF lsquic_conn_adv_time(W.e.attq, conn) # tick_time
         THEN LET W1 == [W EXCEPT !.e.attq = attq_remove(@, conn)]
              IN IF add_ok
                 THEN [W1 EXCEPT !.e.attq = attq_add(@, conn, tick_time)]
                 ELSE engine_decref_conn(W1, conn, LSCONN_ATTQ)
         ELSE W
    ELSE IF add_ok
         THEN engine_incref_conn(
                [W EXCEPT !.e.attq = attq_add(@, conn, tick_time)],
                conn, LSCONN_ATTQ)
         ELSE W

\* add_ok: whether attq_add finds the memory for the new entry
lsquic_engine_add_conn_to_attq(W, conn, tick_time, add_ok) ==
    IF LSCONN_TICKABLE \in W.cn[conn].cn_flags THEN W
    ELSE IF LSCONN_ATTQ \in W.cn[conn].cn_flags
    THEN IF lsquic_conn_adv_time(W.e.attq, conn) # tick_time
         THEN LET W1 == [W EXCEPT !.e.attq = attq_remove(@, conn)]
              IN IF add_ok
                 THEN [W1 EXCEPT !.e.attq = attq_add(@, conn, tick_time)]
                 ELSE engine_decref_conn(W1, conn, LSCONN_ATTQ)
         ELSE W
    ELSE IF add_ok
         THEN engine_incref_conn(
                [W EXCEPT !.e.attq = attq_add(@, conn, tick_time)],
                conn, LSCONN_ATTQ)
         ELSE W

\* ------------------------------------------------------------ the clock
\* A jump of the clock: the second send_batch waits before sending resumes.
Jump == RESUME_DELAY

\* What a read of lsquic_time_now() may return: the clock is monotonic.
TimeAfter(t0) ==
    {t \in {t0 + d : d \in env.clock_steps} :
        (t \div Jump) <= MaxJumps /\ (t % Jump) <= 1 + MaxTicks}

TimeNow == TimeAfter(clock)

\* ------------------------------------------------------- engine creation
\* hash_conns_by_addr: zero-length source connection IDs, or versions that
\* force or allow a zero-length one (by_addr_versions).
hash_conns_by_addr(settings) ==
    settings.by_addr_versions \/ settings.es_scid_len = 0

\* The settings the engines of this model are created with: connections
\* hashed by connection ID, and by local port.
SettingsByCid ==
    [es_scid_len |-> 8, by_addr_versions |-> FALSE, es_proc_time_thresh |-> 1,
     es_honor_prst |-> TRUE]

SettingsByAddr ==
    [es_scid_len |-> 0, by_addr_versions |-> FALSE, es_proc_time_thresh |-> 0,
     es_honor_prst |-> FALSE]

\* An erroneous test of the length of the source connection ID, which lets
\* a server have none.
SettingsOkAnyZero(settings, flags) ==
    ~(~(settings.es_scid_len = 0)
      /\ (settings.es_scid_len < 4 \/ settings.es_scid_len > 18))

\* lsquic_engine_check_settings, the conditions on the modelled fields
SettingsOk(settings, flags) ==
    ~(~(ENG_SERVER \notin flags /\ settings.es_scid_len = 0)
      /\ (settings.es_scid_len < 4 \/ settings.es_scid_len > 18))

lsquic_engine_new(flags, settings) ==
    [enp_flags |-> {ENPUB_CAN_SEND},
     flags |-> flags \cup (IF hash_conns_by_addr(settings)
                           THEN {ENG_CONNS_BY_ADDR} ELSE {}),
     settings |-> settings,
     batch_size |-> INITIAL_OUT_BATCH_SIZE,
     last_sent |-> 0, n_conns |-> 0, deadline |-> 0, resume_sending_at |-> 0,
     mh_nalloc |-> 0,
     conns_tickable |-> <<>>, conns_out |-> <<>>, attq |-> {},
     conns_hash |-> {}]

\* The state after lsquic_engine_new, in the environment E.
InitIn(E, flagsets, settingsset) ==
    /\ env = E
    /\ clock = 1
    /\ pc = "idle"
    /\ \E flags \in flagsets, settings \in settingsset :
          /\ SettingsOk(settings, flags)
          /\ engine = lsquic_engine_new(flags, settings)
    /\ conns = [c \in Conns |-> NoConn]
    /\ proc = NoProc
    /\ ticked_conns = <<>>
    /\ closed_conns = <<>>
    /\ iter = NoIter
    /\ out = NoOut
    /\ obs = NoObs

\* The end of a step: the state W the code leaves, and the position next.
\* A failed assert() ends the program: only the assertion is kept of it.
Commit(W, next) ==
    /\ env' = env
    /\ IF W.ob.failed # ""
       THEN /\ pc' = "abort"
            /\ obs' = [NoObs EXCEPT !.failed = W.ob.failed]
            /\ UNCHANGED <<engine, conns, ticked_conns, closed_conns, iter,
                           out, proc>>
       ELSE /\ pc' = next
            /\ engine' = W.e
            /\ conns' = W.cn
            /\ ticked_conns' = W.tk
            /\ closed_conns' = W.cl
            /\ iter' = W.it
            /\ out' = W.o
            /\ proc' = W.p
            /\ obs' = W.ob

\* A public call has returned: its locals and what was seen of it are gone.
Done(W) ==
    [W EXCEPT !.o = NoOut, !.it = NoIter, !.p = NoProc, !.ob = ResetObs(@),
              !.tk = <<>>, !.cl = <<>>]

\* ENGINE_IN and ENGINE_OUT
ENGINE_IN(W) ==
    LET W1 == IF ENPUB_PROC \in W.e.enp_flags
              THEN Fail(W, "ENGINE_IN: nested call") ELSE W
    IN [W1 EXCEPT !.e.enp_flags = @ \cup {ENPUB_PROC}]

ENGINE_OUT(W) ==
    LET W1 == IF ENPUB_PROC \notin W.e.enp_flags
              THEN Fail(W, "ENGINE_OUT: not in a call") ELSE W
    IN [W1 EXCEPT !.e.enp_flags = @ \ {ENPUB_PROC}]

\* ------------------------------------------------------- connect (C9)
\* maybe_grow_conn_heaps: the new half-capacity, when the heaps must grow
HeapsMustGrow(e) == ~UnsignedLT(e.n_conns, e.mh_nalloc)

GrownNalloc(nalloc) ==
    (IF nalloc # 0 THEN nalloc * 2 * 2 ELSE INITIAL_HEAP_COUNT) \div 2

\* memcpy(dst, src, sizeof(src[0]) * n): the first n elements of src
memcpy(src, n) == SubSeq(src, 1, n)

\* maybe_grow_conn_heaps, when the heaps must grow and malloc succeeds
maybe_grow_conn_heaps(W) ==
    [W EXCEPT !.e.mh_nalloc = GrownNalloc(@),
              !.e.conns_tickable = memcpy(@, lsquic_mh_count(@)),
              !.e.conns_out = memcpy(@, lsquic_mh_count(@))]

\* The connection a client constructor returns.  A connection sets
\* EVANESCENT itself: the connections of env.evanescent are born with it.
NewConn(conn, port) ==
    [NoConn EXCEPT !.st = "live", !.port = port,
                   !.cn_flags = IF conn \in env.evanescent
                                THEN {LSCONN_EVANESCENT} ELSE {}]

\* lsquic_conn_record_sockaddr: the connection keeps the local and the peer
\* address of its path
lsquic_conn_record_sockaddr(cn, sa_local, sa_peer) ==
    [cn EXCEPT !.port = sa_local, !.sa_peer = sa_peer]

\* The paths datagrams come in on, each a local port and a peer, and the
\* peers: the host keeps one context per peer, and connects to the first.
Paths == env.paths

Peers == {path[2] : path \in Paths}

FirstPeer == CHOOSE p \in Peers : \A q \in Peers : p <= q

\* The public call is handed the address and the context of a peer.
FromPeer(W, peer) == [W EXCEPT !.p.sa_peer = peer, !.p.peer_ctx = peer]

\* An erroneous add_conn_to_hash, which keys every connection by its
\* connection ID.
ConnHashEntriesByCid(e, conn, port) == {<<Cid(conn), conn>>}

\* add_conn_to_hash: the entries of the new connection
ConnHashEntries(e, conn, port) ==
    IF ENG_CONNS_BY_ADDR \in e.flags
    THEN {<<sa2key(port), conn>>}
    ELSE {<<Cid(conn), conn>>}

\* The connection IDs a constructor has not handed out yet.
Unborn == {c \in 1 .. env.max_conns : conns[c].st = "none"}

\* The local ports the host binds its sockets to.
LocalPorts ==
    IF ENG_CONNS_BY_ADDR \in engine.flags THEN 1 .. env.max_conns ELSE {1}

\* The test lsquic_engine_connect makes of the local port: in by-address
\* mode a port that has a connection takes no other.
PortTakenByCid(e, port) ==
    ENG_CONNS_BY_ADDR \in e.flags
    /\ lsquic_hash_find(e.conns_hash, Cid(port)) # NULL

PortTaken(e, port) ==
    ENG_CONNS_BY_ADDR \in e.flags
    /\ lsquic_hash_find(e.conns_hash, sa2key(port)) # NULL

\* lsquic_engine_connect.  grow_ok: malloc of the heaps succeeds; ctor_ok:
\* the constructor returns a connection; ins_ok: the hash insertion succeeds.
\* The result is the state left and the connection returned.
ConnectResult(W0, conn, port, grow_ok, ctor_ok, ins_ok) ==
    LET W == ENGINE_IN(W0)
    IN IF ENG_SERVER \in W.e.flags THEN [W |-> ENGINE_OUT(W), ret |-> NULL]
       ELSE IF PortTaken(W.e, port)
       THEN [W |-> ENGINE_OUT(W), ret |-> NULL]
       ELSE IF HeapsMustGrow(W.e) /\ ~grow_ok
       THEN [W |-> W, ret |-> NULL]
       ELSE LET W1 == Logged(IF HeapsMustGrow(W.e)
                             THEN maybe_grow_conn_heaps(W)
                             ELSE W,
                             "client_new", conn, -1, IF ctor_ok THEN 1 ELSE 0)
            IN IF ~ctor_ok THEN [W |-> ENGINE_OUT(W1), ret |-> NULL]
               ELSE LET W2 == [W1 EXCEPT !.e.n_conns = @ + 1,
                                         !.cn[conn] =
                                            lsquic_conn_record_sockaddr(
                                                NewConn(conn, port), port,
                                                W1.p.sa_peer)]
                    IN IF ~ins_ok
                       THEN [W |-> ENGINE_OUT(destroy_conn(W2, conn)),
                             ret |-> NULL]
                       ELSE LET W3 == [W2 EXCEPT
                                    !.e.conns_hash =
                                        @ \cup ConnHashEntries(W2.e, conn, port),
                                    !.cn[conn].cn_flags = @ \cup {LSCONN_HASHED},
                                    !.cn[conn].cn_peer_ctx = W2.p.peer_ctx,
                                    !.e.conns_tickable =
                                        lsquic_mh_insert(@, conn,
                                            W2.cn[conn].cn_last_ticked)]
                            IN [W |-> ENGINE_OUT(Logged(
                                    engine_incref_conn(W3, conn,
                                                       LSCONN_TICKABLE),
                                    "client_call_on_new", conn, -1, 0)),
                                ret |-> conn]

Connect ==
    /\ pc = "idle"
    /\ Unborn # {}
    /\ \E port \in LocalPorts, grow_ok \in BOOLEAN, ctor_ok \in BOOLEAN,
          ins_ok \in BOOLEAN :
          LET conn == CHOOSE c \in Unborn : \A d \in Unborn : c <= d
              r == ConnectResult(FromPeer(Cur, FirstPeer), conn, port,
                                 grow_ok, ctor_ok, ins_ok)
          IN Commit([r.W EXCEPT !.p.caller = "connect", !.ob.port = port,
                                !.ob.ret = r.ret], "ret")
    /\ UNCHANGED clock

\* ------------------------------------------- hooks called by connections
\* The connections a callback or the host can name.
Live == {c \in Conns : conns[c].st = "live"}

\* Tick times a connection asks for.
AdvTimes == {clock + d : d \in env.adv_deltas}

\* The hooks are called by the host between public calls, and within a
\* public call from a callback.
HooksCanRun ==
    \/ pc = "idle"
    \/ pc \in {"tick", "coi", "ticked"} /\ obs.callbacks

\* A hook the host calls is a public call of its own: it returns to the
\* host, which knows what it asked for.
HookDone(W, fn, query) ==
    IF pc = "idle"
    THEN [W EXCEPT !.p.caller = fn, !.ob.query = query]
    ELSE W

AddConnToTickable ==
    /\ HooksCanRun
    /\ \E conn \in Live :
          Commit(HookDone(lsquic_engine_add_conn_to_tickable(Cur, conn),
                          "add_conn_to_tickable", [conn |-> conn]),
                 IF pc = "idle" THEN "ret" ELSE pc)
    /\ UNCHANGED clock

\* What the public call in progress remembers of a call of
\* add_conn_to_attq made from a callback: the connection, how many calls
\* the log held by then, the time asked for and whether attq_add found
\* the memory.  Only the last call that changed something is kept for a
\* connection.
Requeue(W, conn, tick_time, add_ok) ==
    IF pc = "idle" \/ W = Cur THEN W
    ELSE [W EXCEPT !.ob.requeue =
            {r \in @ : r.conn # conn}
                \cup {[conn |-> conn, at |-> Len(W.ob.log),
                       tick_time |-> tick_time, add_ok |-> add_ok]}]

AddConnToAttq ==
    /\ HooksCanRun
    /\ \E conn \in Live, tick_time \in AdvTimes, add_ok \in env.attq_add_ok :
          Commit(HookDone(Requeue(lsquic_engine_add_conn_to_attq(
                                      Cur, conn, tick_time, add_ok),
                                  conn, tick_time, add_ok),
                          "add_conn_to_attq",
                          [conn |-> conn, tick_time |-> tick_time,
                           add_ok |-> add_ok]),
                 IF pc = "idle" THEN "ret" ELSE pc)
    /\ UNCHANGED clock

\* ---------------------------------------------- processing loop (C8)
RECURSIVE AttqPopAll(_, _)
\* lsquic_engine_process_conns: the loop over attq_pop(engine->attq, now)
AttqPopAll(W, t) ==
    IF AttqDue(W.e.attq, t) = {} THEN W
    ELSE LET el == CHOOSE x \in AttqDue(W.e.attq, t) : TRUE
             conn == el[2]
             W1 == engine_decref_conn(
                      [W EXCEPT !.e.attq = @ \ {el}], conn, LSCONN_ATTQ)
             W2 == IF ~Gone(W1, conn)
                      /\ LSCONN_TICKABLE \notin W1.cn[conn].cn_flags
                   THEN engine_incref_conn(
                          [W1 EXCEPT !.e.conns_tickable =
                              lsquic_mh_insert(@, conn, W1.cn[conn].cn_last_ticked)],
                          conn, LSCONN_TICKABLE)
                   ELSE W1
         IN AttqPopAll(W2, t)

reset_deadline(W, t) ==
    [W EXCEPT !.e.deadline = t + W.e.settings.es_proc_time_thresh,
              !.e.flags = @ \ {ENG_PAST_DEADLINE}]

\* An erroneous failsafe test, which waits for twice the delay.
FailsafeLate(e, t) ==
    ENPUB_CAN_SEND \notin e.enp_flags
        /\ t > e.resume_sending_at + RESUME_DELAY

\* process_connections: the failsafe that resumes sending after the timeout
FailsafeDue(e, t) == ENPUB_CAN_SEND \notin e.enp_flags /\ t > e.resume_sending_at

Failsafe(W, t) ==
    IF FailsafeDue(W.e, t)
    THEN [W EXCEPT !.e.enp_flags = @ \cup {ENPUB_CAN_SEND},
                   !.ob.failsafe = TRUE]
    ELSE W

\* The locals of a public call that reads the time t on entry.
Entering(W, caller, t) ==
    [W EXCEPT !.p = [NoProc EXCEPT !.caller = caller, !.now = t],
              !.ob.pending =
                  IF caller = "send_unsent_packets" \/ t > W.e.resume_sending_at
                  THEN FALSE ELSE @]

\* What a process_conns call that finds no connection to tick finds on
\* entry: the collections and the membership masks.
Collections(W) ==
    <<W.e.conns_hash, W.e.conns_tickable, W.e.conns_out, W.e.attq,
      [c \in Conns |-> W.cn[c].cn_flags \cap CONN_REF_FLAGS]>>

NothingToTick(e, t) == e.conns_tickable = <<>> /\ AttqDue(e.attq, t) = {}

ProcessConnsEntry(W, t) ==
    IF NothingToTick(W.e, t)
    THEN [W EXCEPT !.ob.entry.idle =
            <<Collections(W),
              lsquic_mh_count(W.e.conns_out) > 0
                /\ (ENPUB_CAN_SEND \in W.e.enp_flags
                    \/ t > W.e.resume_sending_at)>>]
    ELSE W

\* lsquic_engine_process_conns up to the first connection of the tick loop
ProcessConnsBegin ==
    /\ pc = "idle"
    /\ \E t \in TimeNow :
          /\ clock' = t
          /\ Commit(Failsafe(reset_deadline(
                        AttqPopAll(ENGINE_IN(ProcessConnsEntry(
                            Entering(Cur, "process_conns", t), t)), t), t), t),
                    "tick")

\* coi_init
coi_init(W) ==
    [W EXCEPT !.it = NoIter, !.o = NoOut,
              !.ob.entry.last_sent = W.e.last_sent,
              !.ob.entry.batch_size = W.e.batch_size,
              !.ob.entry.conns =
                  [c \in HeapConns(W.e.conns_out) |->
                      [cn_last_sent |-> W.cn[c].cn_last_sent,
                       n_pkts |-> W.cn[c].n_pkts]]]

lsquic_engine_has_unsent_packets(e) == lsquic_mh_count(e.conns_out) > 0

\* An erroneous test of process_connections, which forgets CAN_SEND.
DrainWheneverUnsent(e) == lsquic_engine_has_unsent_packets(e)

\* process_connections: whether the egress drain runs
DrainRuns(e) ==
    ENPUB_CAN_SEND \in e.enp_flags /\ lsquic_engine_has_unsent_packets(e)

RECURSIVE DrainClosed(_)
\* The loop over closed_conns that ends both public calls.
DrainClosed(W) ==
    IF W.cl = <<>> THEN W
    ELSE DrainClosed(engine_decref_conn(
            [W EXCEPT !.cl = Tail(@)], Head(W.cl), LSCONN_CLOSING))

\* The position after the egress drain, or after the tick loop without one.
AfterSend(W0) ==
    LET W == DrainClosed(W0)
    IN IF W.p.caller = "send_unsent_packets" THEN <<W, "ret">>
       ELSE IF W.tk = <<>> THEN <<ENGINE_OUT(W), "ret">>
       ELSE <<W, "ticked">>

\* The position after the tick loop.
AfterTicks(W) ==
    IF DrainRuns(W.e) THEN <<coi_init(W), "coi">> ELSE AfterSend(W)

\* The locals of send_packets_out are gone when it has returned.
CommitAt(Wn) ==
    Commit([Wn[1] EXCEPT !.o = IF Wn[2] = "coi" THEN @ ELSE NoOut,
                         !.it = IF Wn[2] = "coi" THEN @ ELSE NoIter], Wn[2])

\* The public call returns to the host.
Return ==
    /\ pc = "ret"
    /\ Commit(Done(Cur), "idle")
    /\ UNCHANGED clock

\* The tick results of a connection and the packets a tick makes ready.
TickResults == env.tick_results

NewPackets(cn, tick_st) ==
    IF TICK_SEND \in tick_st THEN 0 .. (env.max_pkts - cn.n_pkts) ELSE {0}

\* process_connections: what follows ci_tick for one connection
Ticked(W, conn, tick_st, n_new) ==
    LET W1 == [Logged(W, "tick", conn, -1,
                      IF TICK_CLOSE \in tick_st THEN 1 ELSE 0)
                  EXCEPT !.cn[conn].n_pkts = @ + n_new,
                         !.cn[conn].cn_last_ticked = W.p.now + W.p.i,
                         !.p.i = @ + 1]
        W2 == IF TICK_SEND \in tick_st
                 /\ LSCONN_HAS_OUTGOING \notin W1.cn[conn].cn_flags
              THEN engine_incref_conn(
                     [W1 EXCEPT !.e.conns_out =
                         lsquic_mh_insert(@, conn, W1.cn[conn].cn_last_sent)],
                     conn, LSCONN_HAS_OUTGOING)
              ELSE W1
    IN IF TICK_CLOSE \in tick_st
       THEN LET W3 == engine_incref_conn(
                        [W2 EXCEPT !.cl = Append(@, conn)], conn, LSCONN_CLOSING)
            IN IF LSCONN_HASHED \in W3.cn[conn].cn_flags
               THEN remove_conn_from_hash(W3, conn) ELSE W3
       ELSE engine_incref_conn(
                [W2 EXCEPT !.tk = Append(@, conn)], conn, LSCONN_TICKED)

\* conn_iter_next_tickable, for the heap element j
conn_iter_next_tickable(W, j) ==
    LET conn == W.e.conns_tickable[j][2]
        W1 == engine_decref_conn(
                 [W EXCEPT !.e.conns_tickable = MhRemoveAt(@, j)],
                 conn, LSCONN_TICKABLE)
    IN IF ~Gone(W1, conn) /\ LSCONN_ATTQ \in W1.cn[conn].cn_flags
       THEN engine_decref_conn(
              [W1 EXCEPT !.e.attq = attq_remove(@, conn)], conn, LSCONN_ATTQ)
       ELSE W1

\* One iteration of the tick loop: the next tickable connection is ticked.
TickConn ==
    /\ pc = "tick"
    /\ engine.conns_tickable # <<>>
    /\ \E j \in MhMinimal(engine.conns_tickable) :
          LET conn == engine.conns_tickable[j][2]
              W == conn_iter_next_tickable(Cur, j)
          IN IF Gone(W, conn)
             THEN CommitAt(AfterTicks(W))
             ELSE \E tick_st \in TickResults :
                     \E n_new \in NewPackets(W.cn[conn], tick_st) :
                        Commit(Callback(Ticked(W, conn, tick_st, n_new)), "tick")
    /\ UNCHANGED clock

\* The tick loop ends: the tickable heap is empty.
TickDone ==
    /\ pc = "tick"
    /\ engine.conns_tickable = <<>>
    /\ CommitAt(AfterTicks(Cur))
    /\ UNCHANGED clock

\* What is_tickable and next_tick_time answer.
NextTickTimes == env.zero_tick_time \cup AdvTimes

\* What the use of a connection after its destruction does: the program
\* crashes, or finds in the freed memory what the connection left there.
\* The model follows a connection object through MaxDestroys destructions.
UseAfterFree(cn) ==
    IF cn.n_destroyed < MaxDestroys THEN {"crash", "stale"} ELSE {"crash"}

\* process_connections: one iteration of the loop over ticked_conns.  The
\* value engine_decref_conn returns is not looked at: uaf is what the use
\* of a connection it has destroyed does.
\* An erroneous end of process_connections, which queues a connection that
\* is not tickable one microsecond after the time it asked for.
RescheduledLate(W0, is_tickable, next_tick_time, add_ok, uaf) ==
    LET conn == Head(W0.tk)
        W == engine_decref_conn([W0 EXCEPT !.tk = Tail(@)], conn, LSCONN_TICKED)
        asked == LSCONN_TICKABLE \notin W.cn[conn].cn_flags
        W1 == IF asked
              THEN Logged(W, "is_tickable", conn, -1,
                          IF is_tickable THEN 1 ELSE 0)
              ELSE W
        W2 == Logged(W1, "next_tick_time", conn, -1, next_tick_time)
    IN IF Gone(W, conn) /\ uaf = "crash"
       THEN Fail(W, "process_connections: use of a destroyed connection")
       ELSE IF asked /\ is_tickable
       THEN engine_incref_conn(
                [W1 EXCEPT !.e.conns_tickable =
                    lsquic_mh_insert(@, conn, W1.cn[conn].cn_last_ticked)],
                conn, LSCONN_TICKABLE)
       ELSE IF LSCONN_ATTQ \notin W1.cn[conn].cn_flags
       THEN IF next_tick_time # 0
            THEN IF add_ok
                 THEN engine_incref_conn(
                        [Logged(W2, "attq_add", conn, -1, 1)
                            EXCEPT !.e.attq =
                                attq_add(@, conn, next_tick_time + 1)],
                        conn, LSCONN_ATTQ)
                 ELSE Logged(W2, "attq_add", conn, -1, 0)
            ELSE Fail(W2, "process_connections: next tick time is zero")
       ELSE W1

Rescheduled(W0, is_tickable, next_tick_time, add_ok, uaf) ==
    LET conn == Head(W0.tk)
        W == engine_decref_conn([W0 EXCEPT !.tk = Tail(@)], conn, LSCONN_TICKED)
        asked == LSCONN_TICKABLE \notin W.cn[conn].cn_flags
        W1 == IF asked
              THEN Logged(W, "is_tickable", conn, -1,
                          IF is_tickable THEN 1 ELSE 0)
              ELSE W
        W2 == Logged(W1, "next_tick_time", conn, -1, next_tick_time)
    IN IF Gone(W, conn) /\ uaf = "crash"
       THEN Fail(W, "process_connections: use of a destroyed connection")
       ELSE IF asked /\ is_tickable
       THEN engine_incref_conn(
                [W1 EXCEPT !.e.conns_tickable =
                    lsquic_mh_insert(@, conn, W1.cn[conn].cn_last_ticked)],
                conn, LSCONN_TICKABLE)
       ELSE IF LSCONN_ATTQ \notin W1.cn[conn].cn_flags
       THEN IF next_tick_time # 0
            THEN IF add_ok
                 THEN engine_incref_conn(
                        [Logged(W2, "attq_add", conn, -1, 1)
                            EXCEPT !.e.attq = attq_add(@, conn, next_tick_time)],
                        conn, LSCONN_ATTQ)
                 ELSE Logged(W2, "attq_add", conn, -1, 0)
            ELSE Fail(W2, "process_connections: next tick time is zero")
       ELSE W1

Reschedule ==
    /\ pc = "ticked"
    /\ \E is_tickable \in BOOLEAN, next_tick_time \in NextTickTimes,
          add_ok \in env.attq_add_ok,
          uaf \in UseAfterFree(conns[Head(ticked_conns)]) :
          LET W == Rescheduled(Cur, is_tickable, next_tick_time, add_ok, uaf)
          IN IF W.tk = <<>>
             THEN CommitAt(<<ENGINE_OUT(Callback(W)), "ret">>)
             ELSE Commit(Callback(W), "ticked")
    /\ UNCHANGED clock

\* ------------------------------------------------ egress pipeline (C7)
grow_batch_size(batch_size) ==
    IF batch_size < MAX_OUT_BATCH_SIZE THEN batch_size * 2 ELSE batch_size

\* An erroneous shrink_batch_size, which halves the batch size below
\* MIN_OUT_BATCH_SIZE.
shrink_below_min(batch_size) == batch_size \div 2

shrink_batch_size(batch_size) ==
    IF batch_size > MIN_OUT_BATCH_SIZE THEN batch_size \div 2 ELSE batch_size

\* TAILQ_NEXT: the element after x in the list, or NULL
TailqNext(s, x) ==
    LET k == CHOOSE j \in 1 .. Len(s) : s[j] = x
    IN IF k < Len(s) THEN s[k + 1] ELSE NULL

\* An erroneous pop, which returns any element of the heap.
CoiChoicesAny(W) ==
    IF lsquic_mh_count(W.e.conns_out) > 0
    THEN 1 .. lsquic_mh_count(W.e.conns_out) ELSE {0}

\* The heap elements coi_next may pop; 0 when it reads the active list.
CoiChoices(W) ==
    IF lsquic_mh_count(W.e.conns_out) > 0 THEN MhMinimal(W.e.conns_out) ELSE {0}

\* coi_next: the state it leaves and the connection it returns
coi_next(W, j) ==
    IF lsquic_mh_count(W.e.conns_out) > 0
    THEN LET conn == W.e.conns_out[j][2]
             W1 == IF W.it.coi_last_sent # 0
                      /\ W.it.coi_last_sent > W.cn[conn].cn_last_sent
                   THEN Fail(W, "coi_next: connections out of order") ELSE W
         IN <<[W1 EXCEPT !.e.conns_out = MhRemoveAt(@, j),
                         !.it.coi_active_list = Append(@, conn),
                         !.it.coi_last_sent = W.cn[conn].cn_last_sent,
                         !.cn[conn].cn_flags = @ \cup {LSCONN_COI_ACTIVE}],
              conn>>
    ELSE IF W.it.coi_active_list # <<>>
    THEN LET conn == IF W.it.coi_next # NULL THEN W.it.coi_next
                     ELSE Head(W.it.coi_active_list)
         IN <<[W EXCEPT !.it.coi_next = TailqNext(W.it.coi_active_list, conn)],
              conn>>
    ELSE <<W, NULL>>

coi_deactivate(W, conn) ==
    IF LSCONN_EVANESCENT \notin W.cn[conn].cn_flags
    THEN LET W1 == IF W.it.coi_active_list = <<>>
                   THEN Fail(W, "coi_deactivate: active list is empty") ELSE W
         IN [W1 EXCEPT !.it.coi_active_list = SeqRemove(@, conn),
                       !.it.coi_inactive_list = Append(@, conn),
                       !.cn[conn].cn_flags =
                           (@ \ {LSCONN_COI_ACTIVE}) \cup {LSCONN_COI_INACTIVE}]
    ELSE W

coi_reactivate(W, conn) ==
    LET W1 == IF LSCONN_COI_INACTIVE \notin W.cn[conn].cn_flags
              THEN Fail(W, "coi_reactivate: connection is not inactive") ELSE W
    IN [W1 EXCEPT !.it.coi_inactive_list = SeqRemove(@, conn),
                  !.it.coi_active_list = Append(@, conn),
                  !.cn[conn].cn_flags =
                      (@ \ {LSCONN_COI_INACTIVE}) \cup {LSCONN_COI_ACTIVE}]

RECURSIVE ReheapActive(_)
ReheapActive(W) ==
    IF W.it.coi_active_list = <<>> THEN W
    ELSE LET conn == Head(W.it.coi_active_list)
         IN ReheapActive(
              [W EXCEPT !.it.coi_active_list = Tail(@),
                        !.cn[conn].cn_flags = @ \ {LSCONN_COI_ACTIVE},
                        !.e.conns_out =
                            lsquic_mh_insert(@, conn, W.cn[conn].cn_last_sent)])

RECURSIVE ReheapInactive(_)
ReheapInactive(W) ==
    IF W.it.coi_inactive_list = <<>> THEN W
    ELSE LET conn == Head(W.it.coi_inactive_list)
         IN ReheapInactive(engine_decref_conn(
              [W EXCEPT !.it.coi_inactive_list = Tail(@),
                        !.cn[conn].cn_flags = @ \ {LSCONN_COI_INACTIVE}],
              conn, LSCONN_HAS_OUTGOING))

\* An erroneous coi_reheap, which forgets the inactive list.
coi_reheap_active_only(W) == ReheapActive(W)

coi_reheap(W) == ReheapInactive(ReheapActive(W))

\* ci_next_packet_to_send, ci_packet_not_sent: the ready packets of a
\* connection leave and re-enter its queue
ci_next_packet_to_send(W, conn) ==
    [Logged(Callback(W), "next_packet_to_send", conn, -1, 0)
        EXCEPT !.cn[conn].n_pkts = @ - 1]

\* i: the batch slot the packet was in, -1 if it was in none
ci_packet_not_sent(W, conn, i) ==
    [Logged(Callback(W), "packet_not_sent", conn, i, 0)
        EXCEPT !.cn[conn].n_pkts = @ + 1]

\* ci_packet_sent for the packet of batch slot i; v is the cn_last_sent the
\* connection is given next
ci_packet_sent(W, conn, i, v) == Logged(Callback(W), "packet_sent", conn, i, v)

\* send_batch: the time at which sending resumes after a refusal
ResumeSendingAt(t) == t + RESUME_DELAY

\* send_batch: the engine's last_sent after n_sent packets were accepted
EngineLastSent(t, n_sent) == t + n_sent

\* send_batch: cn_last_sent of the connection of packet i
ConnLastSent(t, i) == t + i

RECURSIVE PacketsSent(_, _, _, _)
\* send_batch: the loop over the accepted packets, from packet i (0-based)
PacketsSent(W, i, n_sent, t) ==
    IF i >= n_sent THEN W
    ELSE LET conn == W.o.batch[i + 1]
         IN PacketsSent(
              [ci_packet_sent(W, conn, i, ConnLastSent(t, i))
                  EXCEPT !.cn[conn].cn_last_sent = ConnLastSent(t, i)],
              i + 1, n_sent, t)

RECURSIVE NotSentFrom(_, _, _)
\* An erroneous loop over the packets not accepted, from packet j up to
\* packet i.
NotSentFrom(W, j, i) ==
    IF j > i THEN W
    ELSE LET conn == W.o.batch[j + 1]
             W1 == ci_packet_not_sent(W, conn, j)
             W2 == IF W1.cn[conn].cn_flags
                        \cap {LSCONN_COI_ACTIVE, LSCONN_EVANESCENT} = {}
                   THEN coi_reactivate(W1, conn) ELSE W1
         IN NotSentFrom(W2, j + 1, i)

PacketsNotSentForward(W, i, n_sent) == NotSentFrom(W, n_sent, i)

RECURSIVE PacketsNotSentAsTheyAre(_, _, _)
\* An erroneous loop over the packets not accepted, which leaves the
\* connections the iterator has set aside where they are.
PacketsNotSentAsTheyAre(W, i, n_sent) ==
    IF i < n_sent THEN W
    ELSE PacketsNotSentAsTheyAre(ci_packet_not_sent(W, W.o.batch[i + 1], i),
                                 i - 1, n_sent)

RECURSIVE PacketsNotSent(_, _, _)
\* send_batch: the loop over the packets not accepted, from packet i down
PacketsNotSent(W, i, n_sent) ==
    IF i < n_sent THEN W
    ELSE LET conn == W.o.batch[i + 1]
             W1 == ci_packet_not_sent(W, conn, i)
             W2 == IF W1.cn[conn].cn_flags
                        \cap {LSCONN_COI_ACTIVE, LSCONN_EVANESCENT} = {}
                   THEN coi_reactivate(W1, conn) ELSE W1
         IN PacketsNotSent(W2, i - 1, n_sent)

\* An erroneous test of send_batch, which sees only the errors of
\* packets_out and not the batches it accepts in part.
RefusedOnError(ret, n_to_send) == ret < 0

\* send_batch: whether the host refused a part of the batch
Refused(ret, n_to_send) == ret < n_to_send

\* send_batch of the n_to_send packets of the batch; ret is what packets_out
\* returns and t what lsquic_time_now() returns.  The batch is empty after.
send_batch(W, n_to_send, ret, t) ==
    LET W1 == IF Refused(ret, n_to_send)
              THEN [W EXCEPT !.e.enp_flags = @ \ {ENPUB_CAN_SEND},
                             !.e.resume_sending_at = ResumeSendingAt(t)]
              ELSE W
        n_sent == IF ret >= 0 THEN ret ELSE 0
        W2 == IF n_sent > 0
              THEN [W1 EXCEPT !.e.last_sent = EngineLastSent(t, n_sent)] ELSE W1
        W3 == PacketsNotSent(
                 PacketsSent(Logged(W2, "packets_out", NULL, n_to_send, ret),
                             0, n_sent, t),
                 n_to_send - 1, n_sent)
    IN [W3 EXCEPT !.o.batch = <<>>,
                  !.ob.callbacks = TRUE,
                  !.ob.po_calls = @ + 1,
                  !.ob.po_accepted = @ + n_sent,
                  !.ob.flush = [n |-> n_to_send, ret |-> ret, now |-> t,
                                batch_size |-> W.e.batch_size],
                  !.ob.pending = @ \/ Refused(ret, n_to_send)]

\* What send_batch returns.
Accepted(ret) == IF ret >= 0 THEN ret ELSE 0

\* The values packets_out may return for n packets.
Rets(n) == IF env.rets = "any" THEN -1 .. n ELSE {0, n}

\* check_deadline, reading the time t
DeadlinePassed(e, t) == e.settings.es_proc_time_thresh # 0 /\ t > e.deadline

check_deadline(W0, t) ==
    LET W == Logged(W0, "check_deadline", NULL, -1,
                    IF DeadlinePassed(W0.e, t) THEN 1 ELSE 0)
    IN IF DeadlinePassed(W.e, t)
       THEN [W EXCEPT !.e.flags = @ \cup {ENG_PAST_DEADLINE},
                      !.o.deadline_exceeded = TRUE]
       ELSE [W EXCEPT !.o.deadline_exceeded = FALSE]

\* An erroneous end of send_packets_out, without the doubling after more
\* than one batch.
FinalBatchSizeUngrown(batch_size, shrink, n_batches_sent, deadline_exceeded) ==
    IF shrink THEN shrink_batch_size(batch_size) ELSE batch_size

\* An erroneous end of send_packets_out, which doubles the batch size even
\* when the deadline was exceeded.
FinalBatchSizePastDeadline(batch_size, shrink, n_batches_sent, exceeded) ==
    IF shrink THEN shrink_batch_size(batch_size)
    ELSE IF n_batches_sent > 1
    THEN grow_batch_size(batch_size)
    ELSE batch_size

\* send_packets_out: the batch size after the drain
FinalBatchSize(batch_size, shrink, n_batches_sent, deadline_exceeded) ==
    IF shrink THEN shrink_batch_size(batch_size)
    ELSE IF n_batches_sent > 1 /\ ~deadline_exceeded
    THEN grow_batch_size(batch_size)
    ELSE batch_size

\* An erroneous end of send_packets_out, which forgets the packets batched
\* since the last full batch.
EndForWithoutFlush(W, ret, t1, t2) ==
    coi_reheap([W EXCEPT !.o.batch = <<>>,
                         !.e.batch_size =
                            FinalBatchSize(@, W.o.shrink, W.o.n_batches_sent,
                                           W.o.deadline_exceeded)])

\* send_packets_out from the label end_for to its return
EndFor(W, ret, t1, t2) ==
    LET n == Len(W.o.batch)
        W1 == IF n > 0
              THEN check_deadline(
                     [send_batch(W, n, ret, t1) EXCEPT
                         !.o.shrink = Accepted(ret) < n,
                         !.o.n_batches_sent = @ + 1], t2)
              ELSE W
        W2 == [W1 EXCEPT !.e.batch_size =
                 FinalBatchSize(@, W1.o.shrink, W1.o.n_batches_sent,
                                W1.o.deadline_exceeded)]
    IN coi_reheap(W2)

\* An erroneous case ENCPA_BADCRYPT, which does not hand the packet back.
BadCryptKeepsPacket(W0, conn) ==
    LET W == W0
    IN IF LSCONN_EVANESCENT \notin W.cn[conn].cn_flags
       THEN LET W1 == IF LSCONN_CLOSING \notin W.cn[conn].cn_flags
                      THEN LET Wa == engine_incref_conn(
                                        [W EXCEPT !.cl = Append(@, conn)],
                                        conn, LSCONN_CLOSING)
                           IN IF LSCONN_HASHED \in Wa.cn[conn].cn_flags
                              THEN remove_conn_from_hash(Wa, conn) ELSE Wa
                      ELSE W
                W2 == coi_deactivate(W1, conn)
            IN IF LSCONN_TICKED \in W2.cn[conn].cn_flags
               THEN engine_decref_conn(
                      [W2 EXCEPT !.tk = SeqRemove(@, conn)], conn, LSCONN_TICKED)
               ELSE W2
       ELSE W

\* send_packets_out: the case ENCPA_BADCRYPT
BadCrypt(W0, conn) ==
    LET W == ci_packet_not_sent(W0, conn, -1)
    IN IF LSCONN_EVANESCENT \notin W.cn[conn].cn_flags
       THEN LET W1 == IF LSCONN_CLOSING \notin W.cn[conn].cn_flags
                      THEN LET Wa == engine_incref_conn(
                                        [W EXCEPT !.cl = Append(@, conn)],
                                        conn, LSCONN_CLOSING)
                           IN IF LSCONN_HASHED \in Wa.cn[conn].cn_flags
                              THEN remove_conn_from_hash(Wa, conn) ELSE Wa
                      ELSE W
                W2 == coi_deactivate(W1, conn)
            IN IF LSCONN_TICKED \in W2.cn[conn].cn_flags
               THEN engine_decref_conn(
                      [W2 EXCEPT !.tk = SeqRemove(@, conn)], conn, LSCONN_TICKED)
               ELSE W2
       ELSE W

EncResults == env.enc_results

\* The drain leaves the loop: the trailing batch, the batch size, the reheap
\* and what follows the drain in the caller.
LeaveLoop(W) ==
    IF W.o.batch # <<>>
    THEN \E t1 \in TimeNow, ret \in Rets(Len(W.o.batch)) :
            \E t2 \in TimeAfter(t1) :
                /\ clock' = t2
                /\ CommitAt(AfterSend(EndFor(W, ret, t1, t2)))
    ELSE /\ clock' = clock
         /\ CommitAt(AfterSend(EndFor(W, 0, clock, clock)))

\* send_packets_out: the batch is full
FullBatch(W) ==
    \E t1 \in TimeNow, ret \in Rets(W.e.batch_size) :
        LET W1 == [send_batch(W, W.e.batch_size, ret, t1) EXCEPT
                      !.o.n_batches_sent = @ + 1]
        IN IF Accepted(ret) < W.e.batch_size
           THEN /\ clock' = t1
                /\ CommitAt(AfterSend(
                      EndFor([W1 EXCEPT !.o.shrink = TRUE], 0, t1, t1)))
           ELSE \E t2 \in TimeAfter(t1) :
                   LET W2 == check_deadline(W1, t2)
                   IN /\ clock' = t2
                      /\ IF W2.o.deadline_exceeded
                         THEN CommitAt(AfterSend(EndFor(W2, 0, t2, t2)))
                         ELSE Commit([W2 EXCEPT !.e.batch_size =
                                        grow_batch_size(@),
                                        !.ob.full_ok = @ + 1], "coi")

\* One iteration of the loop of send_packets_out: the connection has no
\* packet to send.
DrainDeactivate ==
    /\ pc = "coi"
    /\ \E j \in CoiChoices(Cur) :
          LET r == coi_next(Cur, j)
          IN /\ r[2] # NULL
             /\ r[1].cn[r[2]].n_pkts = 0
             /\ Commit(coi_deactivate(Callback(r[1]), r[2]), "coi")
    /\ UNCHANGED clock

\* esf_encrypt_packet on the packet conn has just returned: enc is its
\* result, and the name of the entry of the log
esf_encrypt_packet(W, conn, enc) == Logged(Callback(W), enc, conn, -1, 0)

\* send_packets_out: the packet of conn takes the next slot of the batch
Batched(W, conn) ==
    [Logged(W, "slot", conn, Len(W.o.batch), 0)
        EXCEPT !.o.batch = Append(@, conn)]

\* One iteration of the loop of send_packets_out: the connection returns a
\* packet, which is encrypted and batched.
DrainPacket ==
    /\ pc = "coi"
    /\ \E j \in CoiChoices(Cur) :
          LET r == coi_next(Cur, j)
              conn == r[2]
          IN /\ conn # NULL
             /\ r[1].cn[conn].n_pkts > 0
             /\ \E enc \in EncResults :
                   LET W == esf_encrypt_packet(
                               ci_next_packet_to_send(r[1], conn), conn, enc)
                   IN IF enc = ENCPA_NOMEM
                      THEN LeaveLoop(ci_packet_not_sent(W, conn, -1))
                      ELSE IF enc = ENCPA_BADCRYPT
                      THEN /\ Commit(BadCrypt(W, conn), "coi")
                           /\ clock' = clock
                      ELSE LET W1 == Batched(W, conn)
                           IN IF Len(W1.o.batch) = W1.e.batch_size
                              THEN FullBatch(W1)
                              ELSE /\ Commit(W1, "coi")
                                   /\ clock' = clock

\* The loop of send_packets_out ends: coi_next returns no connection.
DrainEnd ==
    /\ pc = "coi"
    /\ lsquic_mh_count(engine.conns_out) = 0
    /\ iter.coi_active_list = <<>>
    /\ LeaveLoop(Logged(Cur, "coi_end", NULL, -1, 0))

\* lsquic_engine_send_unsent_packets up to the loop of send_packets_out
SendUnsentPackets ==
    /\ pc = "idle"
    /\ \E t \in TimeNow :
          /\ clock' = t
          /\ LET W == reset_deadline(Entering(Cur, "send_unsent_packets", t), t)
             IN Commit(coi_init([W EXCEPT !.e.enp_flags = @ \cup {ENPUB_CAN_SEND}]),
                       "coi")

\* ------------------------------------------------------ ingress (C6)
\* A datagram of the buffer handed to lsquic_engine_packet_in, as the
\* allocator, the header parser and the lookups see it: mm_ok, the packet
\* descriptor is allocated; parse_ok, the header parses; prst, a gQUIC public
\* reset; gquic, PI_GQUIC; cid, the connection whose ID the header carries
\* (0: no PI_CONN_ID; ManyConns + 1: an ID of no connection); srst_shape, long
\* enough and shaped like a stateless reset; token, the connection its last
\* 16 bytes are the reset token of (0: of none); is_tickable, what the
\* connection answers after the reset.
Datagram(mm_ok, parse_ok, prst, gquic, cid, srst_shape, token, is_tickable) ==
    [mm_ok |-> mm_ok, parse_ok |-> parse_ok, prst |-> prst, gquic |-> gquic,
     cid |-> cid, srst_shape |-> srst_shape, token |-> token,
     is_tickable |-> is_tickable]

lsquic_packet_in_is_gquic_prst(d) == d.prst /\ d.gquic

find_conn_by_addr(e, port) == lsquic_hash_find(e.conns_hash, sa2key(port))

find_conn(W, d, port) ==
    LET found == IF ENG_CONNS_BY_ADDR \in W.e.flags
                 THEN find_conn_by_addr(W.e, port)
                 ELSE IF d.cid # 0
                 THEN lsquic_hash_find(W.e.conns_hash, Cid(d.cid))
                 ELSE NULL
    IN IF found # NULL /\ ENG_CONNS_BY_ADDR \in W.e.flags
          /\ d.cid # 0 /\ d.cid # found
       THEN NULL ELSE found

\* The reset tokens are registered by the connections, for as long as they
\* live.
find_conn_by_srst(W, d) ==
    IF ~d.srst_shape THEN NULL
    ELSE IF d.token # 0 /\ W.cn[d.token].st = "live" THEN d.token
    ELSE NULL

\* An erroneous test, which makes the connection tickable without asking it.
ResetMakesTickableAlways(cn_flags, is_tickable) ==
    LSCONN_TICKABLE \notin cn_flags

\* process_packet_in: whether the connection that was reset enters C2;
\* is_tickable is what ci_is_tickable answers
ResetMakesTickable(cn_flags, is_tickable) ==
    LSCONN_TICKABLE \notin cn_flags /\ is_tickable

\* An erroneous test, which never makes the owner of a packet tickable.
NeverMadeTickable(cn_flags) == FALSE

\* process_packet_in: whether the connection a packet is for enters C2
NotYetTickable(cn_flags) == LSCONN_TICKABLE \notin cn_flags

\* process_packet_in for datagram k of the buffer: the state it leaves, what
\* it returns, the connection the packet was delivered to and the
\* connection that was reset
process_packet_in(W, d, port, k) ==
    IF lsquic_packet_in_is_gquic_prst(d) /\ ~W.e.settings.es_honor_prst
    THEN [W |-> Logged(W, "put_packet_in", NULL, k, 0),
          s |-> 1, to |-> NULL, reset |-> NULL]
    ELSE LET conn == find_conn(W, d, port)
         IN IF conn = NULL
            THEN LET owner == IF W.e.settings.es_honor_prst /\ ~d.gquic
                              THEN find_conn_by_srst(W, d) ELSE NULL
                     Wr == IF owner # NULL
                           THEN Logged(Callback(W), "stateless_reset", owner,
                                       k, 0)
                           ELSE W
                     W1 == IF owner # NULL
                              /\ LSCONN_TICKABLE \notin Wr.cn[owner].cn_flags
                           THEN Logged(Wr, "is_tickable", owner, k,
                                       IF d.is_tickable THEN 1 ELSE 0)
                           ELSE Wr
                     W2 == IF owner # NULL
                              /\ ResetMakesTickable(W1.cn[owner].cn_flags,
                                                    d.is_tickable)
                           THEN engine_incref_conn(
                                  [W1 EXCEPT !.e.conns_tickable =
                                      lsquic_mh_insert(@, owner,
                                          W1.cn[owner].cn_last_ticked)],
                                  owner, LSCONN_TICKABLE)
                           ELSE W1
                 IN [W |-> Logged(W2, "put_packet_in", NULL, k, 0),
                     s |-> 1, to |-> NULL, reset |-> owner]
            ELSE LET W1 == IF NotYetTickable(W.cn[conn].cn_flags)
                           THEN engine_incref_conn(
                                  [W EXCEPT !.e.conns_tickable =
                                      lsquic_mh_insert(@, conn,
                                          W.cn[conn].cn_last_ticked)],
                                  conn, LSCONN_TICKABLE)
                           ELSE W
                     W2 == [W1 EXCEPT !.cn[conn] =
                              [lsquic_conn_record_sockaddr(@, port, W.p.sa_peer)
                                  EXCEPT !.cn_peer_ctx = W.p.peer_ctx]]
                 IN [W |-> Logged(Callback(W2), "packet_in", conn, k, 0),
                     s |-> 0, to |-> conn, reset |-> NULL]

\* An erroneous return, of what process_packet_in returned last.
PacketInReturnLast(n_zeroes, s) == s

\* lsquic_engine_packet_in: what it returns after the loop
PacketInReturn(n_zeroes, s) == IF n_zeroes > 0 THEN 0 ELSE s

\* An erroneous loop condition, which goes on after a datagram that was not
\* delivered.
LoopContinuesAlways(s, k, len) == k < len

\* lsquic_engine_packet_in: while (0 == s && packet_in_data < packet_end),
\* after datagram k of len
LoopContinues(s, k, len) == s = 0 /\ k < len

RECURSIVE PacketInLoop(_, _, _, _, _)
\* lsquic_engine_packet_in: the loop over the datagrams of the buffer, from
\* datagram k; r holds the state, n_zeroes and the deliveries so far
PacketInLoop(r, buf, port, k, dummy) ==
    LET d == buf[k]
        W == Logged(r.W, "get_packet_in", NULL, k, IF d.mm_ok THEN 1 ELSE 0)
    IN IF ~d.mm_ok THEN [r EXCEPT !.ret = -1, !.W = W]
       ELSE IF ~d.parse_ok
       THEN [r EXCEPT !.ret = -1,
                      !.W = [Logged(W, "put_packet_in", NULL, k, 0)
                                EXCEPT !.ob.errno = EINVAL]]
       ELSE LET p == process_packet_in(W, d, port, k)
                r1 == [r EXCEPT !.W = p.W,
                                !.n_zeroes = @ + (IF p.s = 0 THEN 1 ELSE 0),
                                !.delivered = IF p.to # NULL
                                              THEN Append(@, p.to) ELSE @,
                                !.resets = IF p.reset # NULL
                                           THEN Append(@, p.reset) ELSE @]
            IN IF LoopContinues(p.s, k, Len(buf))
               THEN PacketInLoop(r1, buf, port, k + 1, dummy)
               ELSE [r1 EXCEPT !.ret = PacketInReturn(r1.n_zeroes, p.s)]

\* lsquic_engine_packet_in on a buffer of datagrams received on a local port
lsquic_engine_packet_in(W, buf, port) ==
    LET r == [W |-> W, ret |-> 0, n_zeroes |-> 0, delivered |-> <<>>,
              resets |-> <<>>]
    IN IF ENG_CONNS_BY_ADDR \in W.e.flags
          /\ find_conn_by_addr(W.e, port) = NULL
       THEN [r EXCEPT !.ret = -1]
       ELSE PacketInLoop(r, buf, port, 1, 0)

\* The buffers the host hands in: 1 .. MaxDgrams datagrams.
Buffers ==
    UNION {[1 .. n -> env.dgrams] : n \in 1 .. MaxDgrams}

\* lsquic_engine_packet_in up to its return
PacketIn ==
    /\ pc = "idle"
    /\ \E buf \in Buffers, path \in Paths :
          LET port == path[1]
              r == lsquic_engine_packet_in(FromPeer(Cur, path[2]), buf, port)
          IN Commit([r.W EXCEPT !.p.caller = "packet_in",
                                !.ob.buf = buf, !.ob.port = port,
                                !.ob.ret = r.ret], "ret")
    /\ UNCHANGED clock

\* ------------------------------------------------- engine destruction
RECURSIVE DtorDrainOut(_)
\* lsquic_engine_destroy: the loop over lsquic_mh_pop(&engine->conns_out)
DtorDrainOut(W) ==
    IF W.e.conns_out = <<>> THEN W
    ELSE LET conn == W.e.conns_out[1][2]
             W1 == IF LSCONN_HAS_OUTGOING \notin W.cn[conn].cn_flags
                   THEN Fail(W, "lsquic_engine_destroy: not HAS_OUTGOING")
                   ELSE W
         IN DtorDrainOut(engine_decref_conn(
                [W1 EXCEPT !.e.conns_out = Tail(@)], conn, LSCONN_HAS_OUTGOING))

RECURSIVE DtorDrainTickable(_)
\* lsquic_engine_destroy: the loop over lsquic_mh_pop(&engine->conns_tickable)
DtorDrainTickable(W) ==
    IF W.e.conns_tickable = <<>> THEN W
    ELSE LET conn == W.e.conns_tickable[1][2]
             W1 == IF LSCONN_TICKABLE \notin W.cn[conn].cn_flags
                   THEN Fail(W, "lsquic_engine_destroy: not TICKABLE")
                   ELSE W
         IN DtorDrainTickable(engine_decref_conn(
                [W1 EXCEPT !.e.conns_tickable = Tail(@)], conn, LSCONN_TICKABLE))

force_close_conn(W0, conn) ==
    LET flags == W0.cn[conn].cn_flags
        W == IF ENG_DTOR \notin W0.e.flags
             THEN Fail(W0, "force_close_conn: not in the destructor")
             ELSE IF flags \cap CONN_REF_FLAGS = {}
             THEN Fail(W0, "force_close_conn: no reference")
             ELSE IF LSCONN_HAS_OUTGOING \in flags
             THEN Fail(W0, "force_close_conn: HAS_OUTGOING")
             ELSE IF LSCONN_TICKABLE \in flags
             THEN Fail(W0, "force_close_conn: TICKABLE")
             ELSE IF LSCONN_CLOSING \in flags
             THEN Fail(W0, "force_close_conn: CLOSING")
             ELSE W0
        W1 == IF LSCONN_ATTQ \in flags
              THEN engine_decref_conn(
                     [W EXCEPT !.e.attq = attq_remove(@, conn)], conn, LSCONN_ATTQ)
              ELSE W
    IN IF LSCONN_HASHED \in flags THEN remove_conn_from_hash(W1, conn) ELSE W1

RECURSIVE DtorCloseHashed(_, _)
\* lsquic_engine_destroy: the loop over the elements of conns_hash
DtorCloseHashed(W, todo) ==
    IF todo = {} THEN W
    ELSE LET conn == CHOOSE c \in todo : \A d \in todo : c <= d
         IN DtorCloseHashed(force_close_conn(W, conn), todo \ {conn})

lsquic_engine_destroy(W0) ==
    LET W1 == DtorDrainTickable(DtorDrainOut(
                 [W0 EXCEPT !.e.flags = @ \cup {ENG_DTOR}]))
        W2 == DtorCloseHashed(W1, HashConns(W1.e.conns_hash))
        W3 == [W2 EXCEPT !.e.conns_hash = {}]
        W4 == IF W3.e.n_conns # 0
              THEN Fail(W3, "lsquic_engine_destroy: n_conns is not 0") ELSE W3
        W5 == [W4 EXCEPT !.e.attq = {}]
        W6 == IF lsquic_mh_count(W5.e.conns_out) # 0
              THEN Fail(W5, "lsquic_engine_destroy: conns_out is not empty")
              ELSE W5
    IN IF lsquic_mh_count(W6.e.conns_tickable) # 0
       THEN Fail(W6, "lsquic_engine_destroy: conns_tickable is not empty")
       ELSE W6

EngineDestroy ==
    /\ pc = "idle"
    /\ Commit(Done(lsquic_engine_destroy(Cur)), "destroyed")
    /\ UNCHANGED clock

\* ------------------------------------------------------- specifications
\* The environment of Spec: connections and host answer in every way the
\* interfaces allow; packets_out takes a batch whole or refuses it whole.
EnvAny ==
    [max_conns |-> MaxConns,
     clock_steps |-> {0, 1},
     dgrams |-> {Datagram(TRUE, TRUE, FALSE, FALSE, 1, FALSE, 0, FALSE),
                 Datagram(TRUE, TRUE, FALSE, FALSE, 0, TRUE, 1, TRUE),
                 Datagram(TRUE, TRUE, FALSE, FALSE, 0, TRUE, 1, FALSE),
                 Datagram(TRUE, FALSE, FALSE, FALSE, 0, FALSE, 0, FALSE)},
     tick_results |-> SUBSET {TICK_SEND, TICK_CLOSE},
     max_pkts |-> MaxPkts,
     paths |-> {<<1, 1>>, <<2, 2>>},
     enc_results |-> {ENCPA_OK, ENCPA_NOMEM, ENCPA_BADCRYPT},
     rets |-> "any",
     adv_deltas |-> {0, 1},
     zero_tick_time |-> {0},
     attq_add_ok |-> BOOLEAN,
     evanescent |-> {}]

Init == InitIn(EnvAny, {{}, {ENG_SERVER}}, {SettingsByCid, SettingsByAddr})

Next ==
    \/ Connect
    \/ AddConnToTickable
    \/ AddConnToAttq
    \/ ProcessConnsBegin
    \/ TickConn
    \/ TickDone
    \/ Reschedule
    \/ SendUnsentPackets
    \/ DrainDeactivate
    \/ DrainPacket
    \/ DrainEnd
    \/ Return
    \/ PacketIn
    \/ EngineDestroy

Spec == Init /\ [][Next]_vars

\* The environment of SpecEgress, for the egress pipeline: a connection
\* that is ticked, has packets to send and is never closed; a host that
\* accepts any part of a batch; a clock that also jumps past the second
\* after which sending resumes.
EnvEgress ==
    [max_conns |-> MaxConns,
     clock_steps |-> {0, 1, Jump},
     dgrams |-> {},
     tick_results |-> {{}, {TICK_SEND}},
     max_pkts |-> MaxBatchPkts,
     paths |-> {<<1, 1>>},
     enc_results |-> {ENCPA_OK, ENCPA_NOMEM},
     rets |-> "any",
     adv_deltas |-> {1},
     zero_tick_time |-> {},
     attq_add_ok |-> {TRUE},
     evanescent |-> {}]

InitEgress == InitIn(EnvEgress, {{}}, {SettingsByCid})

NextEgress ==
    \/ Connect
    \/ ProcessConnsBegin
    \/ TickConn
    \/ TickDone
    \/ Reschedule
    \/ SendUnsentPackets
    \/ DrainDeactivate
    \/ DrainPacket
    \/ DrainEnd
    \/ Return

SpecEgress == InitEgress /\ [][NextEgress]_vars

\* The environment of SpecMany, for several connections, hashed by
\* connection ID or by local port: every tick has packets to send,
\* encryption may fail, the host accepts any part of a batch.
EnvMany ==
    [max_conns |-> ManyConns,
     clock_steps |-> {0, 1},
     dgrams |-> {},
     tick_results |-> {{TICK_SEND}},
     max_pkts |-> ManyPkts,
     paths |-> {<<1, 1>>},
     enc_results |-> {ENCPA_OK, ENCPA_NOMEM},
     rets |-> "any",
     adv_deltas |-> {1},
     zero_tick_time |-> {},
     attq_add_ok |-> {TRUE},
     evanescent |-> {}]

InitMany == InitIn(EnvMany, {{}}, {SettingsByCid, SettingsByAddr})

NextMany ==
    \/ Connect
    \/ ProcessConnsBegin
    \/ TickConn
    \/ TickDone
    \/ Reschedule
    \/ SendUnsentPackets
    \/ DrainDeactivate
    \/ DrainPacket
    \/ DrainEnd
    \/ Return

SpecMany == InitMany /\ [][NextMany]_vars

\* The environment of SpecDrain, for the loop of the egress drain: two
\* connections, the first of which is EVANESCENT; every tick has a packet
\* to send, encryption may find no memory, the host takes a batch whole or
\* refuses it whole, and the clock stands still.
EnvDrain ==
    [max_conns |-> ManyConns,
     clock_steps |-> {0},
     dgrams |-> {},
     tick_results |-> {{TICK_SEND}},
     max_pkts |-> ManyPkts,
     paths |-> {<<1, 1>>},
     enc_results |-> {ENCPA_OK, ENCPA_NOMEM},
     rets |-> "all",
     adv_deltas |-> {1},
     zero_tick_time |-> {},
     attq_add_ok |-> {TRUE},
     evanescent |-> {1}]

InitDrain == InitIn(EnvDrain, {{}}, {SettingsByCid})

NextDrain ==
    \/ Connect
    \/ ProcessConnsBegin
    \/ TickConn
    \/ TickDone
    \/ Reschedule
    \/ SendUnsentPackets
    \/ DrainDeactivate
    \/ DrainPacket
    \/ DrainEnd
    \/ Return

\* A public call that has begun goes on: the code runs.
SpecDrain == InitDrain /\ [][NextDrain]_vars /\ WF_vars(NextDrain)

\* The environment of SpecGrow, for the growth of the heaps: more
\* connections than the first allocation holds; a connection has nothing
\* to send and is closed by its tick or not, and the clock stands still.
EnvGrow ==
    [max_conns |-> GrowConns,
     clock_steps |-> {0},
     dgrams |-> {},
     tick_results |-> {{}, {TICK_CLOSE}},
     max_pkts |-> 0,
     paths |-> {<<1, 1>>},
     enc_results |-> {ENCPA_OK},
     rets |-> "all",
     adv_deltas |-> {1},
     zero_tick_time |-> {},
     attq_add_ok |-> {TRUE},
     evanescent |-> {}]

InitGrow == InitIn(EnvGrow, {{}}, {SettingsByCid})

NextGrow ==
    \/ Connect
    \/ ProcessConnsBegin
    \/ TickConn
    \/ TickDone
    \/ Reschedule
    \/ Return

SpecGrow == InitGrow /\ [][NextGrow]_vars

\* The environment of SpecRequeue, for the callbacks that queue another
\* connection: two connections with nothing to send that their ticks do
\* not close, and callbacks that call add_conn_to_attq.
EnvRequeue ==
    [max_conns |-> ManyConns,
     clock_steps |-> {0, 1},
     dgrams |-> {},
     tick_results |-> {{}},
     max_pkts |-> 0,
     paths |-> {<<1, 1>>},
     enc_results |-> {ENCPA_OK},
     rets |-> "all",
     adv_deltas |-> {1, 2},
     zero_tick_time |-> {},
     attq_add_ok |-> BOOLEAN,
     evanescent |-> {}]

InitRequeue == InitIn(EnvRequeue, {{}}, {SettingsByCid})

NextRequeue ==
    \/ Connect
    \/ ProcessConnsBegin
    \/ TickConn
    \/ TickDone
    \/ Reschedule
    \/ Return
    \/ AddConnToAttq

SpecRequeue == InitRequeue /\ [][NextRequeue]_vars

\* ------------------------------------------------------------ the queries
\* lsquic.h and lsquic_h3_prio.h: the smallest flow control window, the
\* versions the library supports (here by name, with one it does not
\* support) and the elements of the HTTP/3 priority tree.
LSQUIC_MIN_FCW == 16384
LSQUIC_SUPPORTED_VERSIONS == {"Q043", "ID22"}
H3_PRIO_MAX_ELEMS == 255

\* lsquic_engine_check_settings.  The fields are unsigned: see UnsignedLT
\* for the integers that stand for them; the sum is the sum modulo 2^32.
lsquic_engine_check_settings(settings, flags) ==
    LET sum == settings.es_init_max_streams_bidi
               + settings.es_init_max_streams_uni
               + settings.es_h3_placeholders
    IN IF UnsignedLT(settings.es_cfcw, LSQUIC_MIN_FCW)
          \/ UnsignedLT(settings.es_sfcw, LSQUIC_MIN_FCW)
       THEN -1
       ELSE IF settings.es_versions \cap LSQUIC_SUPPORTED_VERSIONS = {}
       THEN -1
       ELSE IF settings.es_versions \ LSQUIC_SUPPORTED_VERSIONS # {}
       THEN -1
       ELSE IF UnsignedLT(600, settings.es_idle_timeout)
       THEN -1
       ELSE IF ~SettingsOk(settings, flags)
       THEN -1
       ELSE IF UnsignedLT(H3_PRIO_MAX_ELEMS, sum)
       THEN -1
       ELSE 0

\* The settings a host may hand to lsquic_engine_check_settings: values
\* around each limit, -1 standing for UINT_MAX.
SomeSettings ==
    [es_cfcw : {LSQUIC_MIN_FCW - 1, LSQUIC_MIN_FCW},
     es_sfcw : {LSQUIC_MIN_FCW - 1, LSQUIC_MIN_FCW},
     es_versions : SUBSET {"Q043", "Q000"},
     es_idle_timeout : {600, 601},
     es_scid_len : {0, 3, 4, 18, 19},
     es_init_max_streams_bidi :
        {0, H3_PRIO_MAX_ELEMS - 1, H3_PRIO_MAX_ELEMS, H3_PRIO_MAX_ELEMS + 1, -1},
     es_init_max_streams_uni : {0, 1, -1},
     es_h3_placeholders : {0, 1}]

\* A query has been answered: the host has the answer until it goes on.
Answered(W, fn, query, ret) ==
    [W EXCEPT !.p.caller = fn, !.ob.query = query, !.ob.ret = ret]

CheckSettings ==
    /\ pc = "idle"
    /\ \E settings \in SomeSettings, flags \in {{}, {ENG_SERVER}} :
          Commit(Answered(Cur, "check_settings",
                          [settings |-> settings, flags |-> flags],
                          lsquic_engine_check_settings(settings, flags)),
                 "ret")
    /\ UNCHANGED clock

\* lsquic_time_t is a 64-bit count of microseconds: the time hi * 2^31 + lo
\* is kept as the record of hi and lo, 0 <= lo < 2^31.
WideTime(hi, lo) == [hi |-> hi, lo |-> lo]

\* What stands for the NULL attq_next_time returns for an empty queue.
NoTime == WideTime(-1, 0)

\* An erroneous minimum, which is its first argument.
WideFirst(a, b) == a

WideMin(a, b) ==
    IF a.hi < b.hi \/ (a.hi = b.hi /\ a.lo < b.lo) THEN a ELSE b

\* (int) ((int64_t) a - (int64_t) b): the difference modulo 2^32, as a
\* signed 32-bit integer.
DiffAsInt(a, b) ==
    LET dh == a.hi - b.hi
        dl == a.lo - b.lo
    IN IF dh % 2 = 0 THEN dl
       ELSE IF dl < 0 THEN (dl + 2147483647) + 1
       ELSE (dl - 2147483647) - 1

\* lsquic_engine_earliest_adv_tick.  n_out and n_tickable: the counts of
\* the heaps; next_attq_time: what attq_next_time returns, NoTime for NULL.
\* The result is the value returned and what *diff holds afterwards, NULL
\* if it is not written.
lsquic_engine_earliest_adv_tick(flags, enp_flags, n_out, n_tickable, next_attq_time, resume_sending_at, now) ==
    IF (ENG_PAST_DEADLINE \in flags /\ n_out # 0) \/ n_tickable # 0
    THEN [ret |-> 1, diff |-> 0]
    ELSE IF ENPUB_CAN_SEND \in enp_flags /\ next_attq_time = NoTime
    THEN [ret |-> 0, diff |-> NULL]
    ELSE LET next_time ==
                 IF ENPUB_CAN_SEND \in enp_flags THEN next_attq_time
                 ELSE IF next_attq_time # NoTime
                 THEN WideMin(next_attq_time, resume_sending_at)
                 ELSE resume_sending_at
         IN [ret |-> 1, diff |-> DiffAsInt(next_time, now)]

\* The times of the queries: around the multiples of 2^31 microseconds.
WideTimes == {WideTime(hi, lo) : hi \in 0 .. MaxHi, lo \in {0, 1, 2147483647}}

EarliestAdvTick ==
    /\ pc = "idle"
    /\ \E flags \in SUBSET {ENG_PAST_DEADLINE},
          enp_flags \in SUBSET {ENPUB_CAN_SEND},
          n_out \in {0, 1}, n_tickable \in {0, 1},
          next_attq_time \in {NoTime} \cup WideTimes,
          resume_sending_at \in WideTimes, now \in WideTimes :
          LET r == lsquic_engine_earliest_adv_tick(flags, enp_flags, n_out,
                       n_tickable, next_attq_time, resume_sending_at, now)
          IN Commit(Answered(Cur, "earliest_adv_tick",
                             [flags |-> flags, enp_flags |-> enp_flags,
                              n_out |-> n_out, n_tickable |-> n_tickable,
                              next_attq_time |-> next_attq_time,
                              resume_sending_at |-> resume_sending_at,
                              now |-> now, diff |-> r.diff],
                             r.ret),
                    "ret")
    /\ UNCHANGED clock

\* attq_count_before: the entries queued for a time before cutoff
attq_count_before(q, cutoff) == Cardinality({el \in q : el[1] < cutoff})

\* lsquic_engine_count_attq
lsquic_engine_count_attq(q, now, from_now) ==
    attq_count_before(q, IF from_now < 0 THEN now - from_now
                         ELSE now + from_now)

CountAttq ==
    /\ pc = "idle"
    /\ \E q \in SUBSET ((1 .. 2 * MaxOffset + 1) \X (1 .. ManyConns)),
          now \in {MaxOffset + 1}, from_now \in -MaxOffset .. MaxOffset :
          /\ \A c \in Conns : Cardinality({el \in q : el[2] = c}) <= 1
          /\ Commit(Answered(Cur, "count_attq",
                             [attq |-> q, now |-> now, from_now |-> from_now],
                             lsquic_engine_count_attq(q, now, from_now)),
                    "ret")
    /\ UNCHANGED clock

\* SpecQuery: the functions that read and change nothing, asked about
\* settings, engines and times drawn from the sets above.
InitQuery == InitIn(EnvMany, {{}}, {SettingsByCid})

NextQuery ==
    \/ CheckSettings
    \/ EarliestAdvTick
    \/ CountAttq
    \/ Return

SpecQuery == InitQuery /\ [][NextQuery]_vars

\* ------------------------------------------------------------- the claims
InCall == pc \in {"tick", "coi", "ticked", "ret"}

\* A drain has run in the public call in progress.
Drained == InCall /\ obs.entry.batch_size # 0

\* The last flush of the call was refused in part or in whole.
LastFlushRefused == obs.flush.n > 0 /\ obs.flush.ret < obs.flush.n

\* This step calls packets_out.
FlushStep == obs'.po_calls > obs.po_calls

\* C1: a connection is destroyed at most once, and a connection that lives
\* has at least one of its six membership bits set.
C1_DestroyedOnce ==
    \A c \in Conns :
        /\ conns[c].n_destroyed <= 1
        /\ conns[c].st = "live" => ~Unreferenced(conns[c].cn_flags)

C3_DtorAsserts ==
    obs.failed \notin {"lsquic_engine_destroy: n_conns is not 0",
                       "lsquic_engine_destroy: conns_out is not empty",
                       "lsquic_engine_destroy: conns_tickable is not empty"}

\* C4: PROC is clear whenever no processing call is executing.
C4_ProcClear == pc = "idle" => ENPUB_PROC \notin engine.enp_flags

\* C5: a flush that packets_out refuses in part or in whole, or answers with
\* an error, leaves CAN_SEND clear and resume_sending_at at the time of the
\* flush plus 1,000,000; from then until send_unsent_packets is called or
\* process_conns runs with now > resume_sending_at, no process_conns call
\* invokes packets_out.
C5_Backpressure ==
    [][/\ (FlushStep /\ obs'.flush.ret < obs'.flush.n)
          => /\ ENPUB_CAN_SEND \notin engine'.enp_flags
             /\ engine'.resume_sending_at = obs'.flush.now + 1000000
       /\ (obs.pending /\ proc.caller = "process_conns") => ~FlushStep]_vars

\* A process_conns call before resume_sending_at has returned without a call
\* of packets_out, though a connection holds packets to send.
C5_HeldBack ==
    /\ pc = "ret"
    /\ proc.caller = "process_conns"
    /\ obs.pending
    /\ obs.callbacks
    /\ obs.po_calls = 0
    /\ lsquic_engine_has_unsent_packets(engine)
    /\ proc.now <= engine.resume_sending_at

\* C6: a process_conns call that finds CAN_SEND clear and reads a time after
\* resume_sending_at sets CAN_SEND and, if C3 is not empty when the
\* connections have been ticked, runs the egress drain before it returns.
C6_Failsafe ==
    [][/\ (pc = "idle" /\ proc'.caller = "process_conns"
            /\ ENPUB_CAN_SEND \notin engine.enp_flags
            /\ proc'.now > engine.resume_sending_at)
          => ENPUB_CAN_SEND \in engine'.enp_flags
       /\ (pc = "tick" /\ pc' \notin {"tick", "abort"} /\ obs.failsafe
            /\ lsquic_engine_has_unsent_packets(engine))
          => pc' = "coi"]_vars

\* The failsafe has re-enabled sending and the drain of the same call has
\* flushed a batch.
C6_Resumed ==
    /\ InCall
    /\ proc.caller = "process_conns"
    /\ obs.failsafe
    /\ obs.po_calls > 0

RECURSIVE DoubledTimes(_, _)
\* The batch size b doubled k times, never beyond 1024.
DoubledTimes(b, k) ==
    IF k = 0 THEN b ELSE DoubledTimes(Min(2 * b, 1024), k - 1)

\* C7: a drain leaves the batch size doubled once for each full batch that
\* was accepted whole while the deadline was not exceeded, and not increased
\* for any other reason.
C7_DoubledPerFullBatch ==
    (pc = "ret" /\ Drained)
    => /\ engine.batch_size <= DoubledTimes(obs.entry.batch_size, obs.full_ok)
       /\ ~LastFlushRefused
          => engine.batch_size = DoubledTimes(obs.entry.batch_size, obs.full_ok)

\* The doubling at the end of a drain: the drain flushed more than one
\* batch, the last of them was accepted whole and the deadline was not
\* exceeded.
EndDoubling ==
    IF obs.po_calls > 1 /\ ~LastFlushRefused
       /\ ENG_PAST_DEADLINE \notin engine.flags
    THEN 1 ELSE 0

\* C7, as the code has it: the batch size is also doubled once more at the
\* end of a drain that flushed more than one batch, if the last flush was
\* accepted whole and the deadline was not exceeded: a full batch accepted
\* whole and an accepted trailing batch leave min(4 x entry size, 1024).
C7_DoubledAgainAtEnd ==
    /\ (pc = "ret" /\ Drained)
       => /\ engine.batch_size
               <= DoubledTimes(obs.entry.batch_size, obs.full_ok + EndDoubling)
          /\ ~LastFlushRefused
             => engine.batch_size
                  = DoubledTimes(obs.entry.batch_size, obs.full_ok + EndDoubling)
    /\ \A k \in 2 .. 10 :
         /\ grow_batch_size(DoubledTimes(1, k)) = Min(2 * DoubledTimes(1, k), 1024)
         /\ grow_batch_size(DoubledTimes(1, k)) <= 1024

\* A full batch of 4 and a trailing batch, both accepted whole, leave 16.
C7_FourTimes ==
    /\ pc = "ret"
    /\ Drained
    /\ obs.entry.batch_size = MIN_OUT_BATCH_SIZE
    /\ obs.full_ok = 1
    /\ obs.po_calls = 2
    /\ ~LastFlushRefused
    /\ ENG_PAST_DEADLINE \notin engine.flags
    /\ engine.batch_size = 4 * obs.entry.batch_size

\* C8: after a flush that packets_out accepts only in part, or answers with
\* an error, the drain submits no further batch and leaves the batch size
\* at max(s / 2, 4), s the batch size the batch was flushed with; the batch
\* size is never below 4.
C8_Shrink ==
    [][/\ (InCall /\ LastFlushRefused) => ~FlushStep
       /\ (pc' = "ret" /\ obs'.flush.n > 0 /\ obs'.flush.ret < obs'.flush.n)
          => engine'.batch_size
               = (IF obs'.flush.batch_size \div 2 > 4
                  THEN obs'.flush.batch_size \div 2 ELSE 4)
       /\ engine'.batch_size >= 4]_vars

\* A batch flushed with a batch size above 4 was refused in part.
C8_Halved ==
    /\ pc = "ret"
    /\ LastFlushRefused
    /\ obs.flush.ret > 0
    /\ obs.flush.batch_size > MIN_OUT_BATCH_SIZE
    /\ engine.batch_size = obs.flush.batch_size \div 2

\* C9: after a drain, engine.last_sent is greater than before the drain if
\* and only if packets_out accepted at least one packet during the drain.
C9_LastSentGrows ==
    (pc = "ret" /\ Drained)
    => ((engine.last_sent > obs.entry.last_sent) <=> (obs.po_accepted > 0))

\* C10: a process_conns call that finds C2 empty and no ATTQ entry due
\* invokes no capability and no callback and leaves the collections and the
\* membership masks as they were.
C10_NoOp ==
    (InCall /\ proc.caller = "process_conns" /\ obs.entry.idle # <<>>)
    => /\ ~obs.callbacks
       /\ Collections(Cur) = obs.entry.idle[1]

\* C10, as the code has it: such a call is a no-op unless C3 is not empty
\* and sending is enabled, CAN_SEND being set or the time being after
\* resume_sending_at; then it runs the egress drain.
C10_NoOpUnlessUnsent ==
    (InCall /\ proc.caller = "process_conns" /\ obs.entry.idle # <<>>)
    => IF obs.entry.idle[2]
       THEN pc \in {"tick", "coi"} \/ obs.callbacks
       ELSE /\ ~obs.callbacks
            /\ Collections(Cur) = obs.entry.idle[1]

\* A call that found nothing to tick and nothing it may send has returned,
\* a connection being registered and holding packets.
C10_Idle ==
    /\ pc = "ret"
    /\ proc.caller = "process_conns"
    /\ obs.entry.idle # <<>>
    /\ ~obs.entry.idle[2]
    /\ engine.conns_hash # {}
    /\ lsquic_engine_has_unsent_packets(engine)

\* The entries of the log that record the call ev.
Events(ev) == SelectSeq(obs.log, LAMBDA e : e.ev = ev)

\* The egress drain of the call in progress has returned.
DrainOver == Drained /\ pc \in {"ticked", "ret"}

\* Every connection of C3 held exactly one ready packet when the drain began.
OnePacketEach ==
    \A c \in DOMAIN obs.entry.conns : obs.entry.conns[c].n_pkts = 1

\* The batch slots the drain filled are in non-decreasing order of the
\* connections' cn_last_sent at the entry of the drain.
SlotsInOrder ==
    LET slots == Events("slot")
    IN \A i, j \in 1 .. Len(slots) :
          i < j => obs.entry.conns[slots[i].conn].cn_last_sent
                     <= obs.entry.conns[slots[j].conn].cn_last_sent

\* The slots the drain filled with packets of the connection c.
SlotsOf(c) == Len(SelectSeq(Events("slot"), LAMBDA e : e.conn = c))

\* C11: in a drain over connections of C3 that hold one ready packet each,
\* the packets are placed into batch slots in non-decreasing order of the
\* connections' last_sent at the entry of the drain, and the packet of each
\* connection takes exactly one slot, none is skipped.
C11_EachInOrder ==
    (DrainOver /\ OnePacketEach)
    => /\ SlotsInOrder
       /\ \A c \in DOMAIN obs.entry.conns : SlotsOf(c) = 1

\* The loop of the drain ran until coi_next returned no connection, and no
\* packet failed to encrypt.
Uninterrupted ==
    /\ Events("coi_end") # <<>>
    /\ \A k \in 1 .. Len(obs.log) :
          ~(obs.log[k].ev = "packet_not_sent" /\ obs.log[k].i = -1)

\* C11, as the code has it: the slots are in that order and no packet takes
\* two slots; none is skipped if the loop of the drain runs until coi_next
\* returns no connection and every packet is encrypted.  ENCPA_NOMEM ends
\* the loop with connections not visited.
C11_InOrderUnlessCutShort ==
    /\ obs.failed # "coi_next: connections out of order"
    /\ (DrainOver /\ OnePacketEach)
       => /\ SlotsInOrder
          /\ \A c \in DOMAIN obs.entry.conns :
                /\ SlotsOf(c) <= 1
                /\ Uninterrupted => SlotsOf(c) = 1

\* Two connections with one packet each were drained, the one with the
\* higher number, which had sent less recently, first.
C11_TwoInOrder ==
    /\ DrainOver
    /\ OnePacketEach
    /\ DOMAIN obs.entry.conns = {1, 2}
    /\ obs.entry.conns[2].cn_last_sent < obs.entry.conns[1].cn_last_sent
    /\ Len(Events("slot")) = 2
    /\ [k \in 1 .. 2 |-> Events("slot")[k].conn] = <<2, 1>>

\* The calls of ev made on the connection c.
EventsOf(ev, c) == Len(SelectSeq(Events(ev), LAMBDA e : e.conn = c))

\* Sending is enabled and packets_out accepted every batch of the call whole.
AcceptsAll ==
    /\ ENPUB_CAN_SEND \in engine.enp_flags
    /\ \A k \in 1 .. Len(obs.log) :
          obs.log[k].ev = "packets_out" => obs.log[k].v = obs.log[k].i

\* The process_conns call in progress has ticked and drained.
Processed == pc \in {"ticked", "ret"} /\ proc.caller = "process_conns"

\* Every packet next_packet_to_send returned took a slot and was reported
\* with packet_sent, once, and no connection is left in C3.
AllSent ==
    \A c \in Conns :
        /\ EventsOf("slot", c) = EventsOf("next_packet_to_send", c)
        /\ EventsOf("packet_sent", c) = EventsOf("next_packet_to_send", c)
        /\ c \notin HeapConns(engine.conns_out)
        /\ LSCONN_HAS_OUTGOING \notin conns[c].cn_flags

SlotConn(k, i) ==
    LET j == CHOOSE j \in 1 .. k :
                /\ obs.log[j].ev = "slot" /\ obs.log[j].i = i
                /\ \A m \in j + 1 .. k :
                      ~(obs.log[m].ev = "slot" /\ obs.log[m].i = i)
    IN obs.log[j].conn

\* Entry k of the log is a call of packets_out, and what follows it is
\* packet_sent for the accepted packets in the order of the batch, then
\* packet_not_sent for the others in the reverse order.
FlushInOrder(k) ==
    LET n == obs.log[k].i
        a == Accepted(obs.log[k].v)
    IN /\ k + n <= Len(obs.log)
       /\ \A m \in 1 .. a :
             obs.log[k + m] = Event("packet_sent", SlotConn(k, m - 1), m - 1,
                                    obs.log[k + m].v)
       /\ \A m \in 1 .. n - a :
             obs.log[k + a + m]
               = Event("packet_not_sent", SlotConn(k, n - m), n - m, 0)

\* C13: in every flush, packet_sent is invoked only for the packets of the
\* accepted prefix, after packets_out has returned and in the order of the
\* batch, and packet_not_sent once for each packet of the rejected tail, in
\* the reverse order.
C13_FlushCallbacks ==
    \A k \in 1 .. Len(obs.log) :
        /\ obs.log[k].ev = "packets_out" => FlushInOrder(k)
        /\ (obs.log[k].ev = "packet_sent"
             \/ (obs.log[k].ev = "packet_not_sent" /\ obs.log[k].i >= 0))
           => \E f \in 1 .. k - 1 :
                 /\ obs.log[f].ev = "packets_out"
                 /\ k <= f + obs.log[f].i

\* A batch of which packets_out took the first packet only: the two others
\* went back to their connection, the later one first.
C13_TailReturned ==
    \E k \in 1 .. Len(obs.log) :
        /\ obs.log[k] = Event("packets_out", NULL, 3, 1)
        /\ k + 3 <= Len(obs.log)
        /\ obs.log[k + 1].ev = "packet_sent"
        /\ obs.log[k + 2] = Event("packet_not_sent", 1, 2, 0)
        /\ obs.log[k + 3] = Event("packet_not_sent", 1, 1, 0)

\* C14: within one processing call the cn_last_sent values given to the
\* connections of the accepted packets are strictly increasing in the order
\* in which the packets were accepted, across the batches of the call.
C14_LastSentIncreasing ==
    LET sent == Events("packet_sent")
    IN \A i, j \in 1 .. Len(sent) : i < j => sent[i].v < sent[j].v

\* lsquic_engine_packet_in has returned.
PacketInDone == pc = "ret" /\ proc.caller = "packet_in"

\* A datagram of the buffer was handed to the packet_in capability of a
\* connection.
Delivered == Events("packet_in") # <<>>

\* The call ended on a packet descriptor that could not be allocated or on
\* a header that could not be parsed.
AllocOrParseFailed ==
    \/ \E k \in 1 .. Len(obs.log) :
          obs.log[k].ev = "get_packet_in" /\ obs.log[k].v = 0
    \/ obs.errno = EINVAL

\* C15: packet_in returns 0 if and only if it handed at least one datagram
\* of the buffer to the packet_in capability of a connection; it returns 1
\* when it delivered none and no allocation and no parsing failed.
C15_ZeroIffDelivered ==
    PacketInDone
    => /\ obs.ret = 0 <=> Delivered
       /\ (~Delivered /\ ~AllocOrParseFailed) => obs.ret = 1

\* An engine that hashes by address has no connection on the local port the
\* buffer came in on.
NoConnOnPort ==
    /\ ENG_CONNS_BY_ADDR \in engine.flags
    /\ find_conn_by_addr(engine, obs.port) = NULL

\* C15, as the code has it: packet_in returns -1 when an allocation or a
\* parsing fails, whatever it delivered before, and when an engine that
\* hashes by address has no connection on the local port; otherwise 0 if it
\* delivered a datagram and 1 if it delivered none.
C15_ZeroIffDeliveredAndNoFailure ==
    PacketInDone
    => obs.ret = (IF AllocOrParseFailed \/ NoConnOnPort THEN -1
                  ELSE IF Delivered THEN 0 ELSE 1)

\* The first datagram of a buffer was delivered, the second found no
\* connection, and packet_in returned 0.
C15_DeliveredThenNot ==
    /\ PacketInDone
    /\ Len(obs.buf) = 2
    /\ Len(Events("packet_in")) = 1
    /\ Len(Events("get_packet_in")) = 2
    /\ ~AllocOrParseFailed
    /\ obs.ret = 0

\* The datagrams of the buffer packet_in took up: it asks for a packet
\* descriptor for each.
TakenUp == Len(Events("get_packet_in"))

\* Datagram k of the buffer was handed to a connection.
DeliveredAt(k) ==
    \E j \in 1 .. Len(obs.log) :
        obs.log[j].ev = "packet_in" /\ obs.log[j].i = k

\* A datagram whose header does not parse is discarded, its descriptor
\* released, and errno set to EINVAL.
ParseFailureDiscards ==
    \A k \in 1 .. TakenUp :
        (obs.buf[k].mm_ok /\ ~obs.buf[k].parse_ok)
        => /\ obs.errno = EINVAL
           /\ \E j \in 1 .. Len(obs.log) :
                 obs.log[j] = Event("put_packet_in", NULL, k, 0)
           /\ ~DeliveredAt(k)

\* C16: a datagram of a buffer whose header does not parse is discarded,
\* errno is set to EINVAL and packet_in goes on with the datagrams after it;
\* a datagram that finds no connection does not stop the processing of the
\* datagrams after it either.
C16_Continues ==
    (PacketInDone /\ ~NoConnOnPort)
    => /\ ParseFailureDiscards
       /\ \A k \in 1 .. Len(obs.buf) :
             (\A j \in 1 .. k - 1 : obs.buf[j].mm_ok) => k <= TakenUp

\* C16, as the code has it: packet_in returns -1 on the first datagram whose
\* header does not parse, and takes up a datagram only if every datagram
\* before it was delivered to a connection.
C16_StopsAtFirstUndelivered ==
    PacketInDone
    => /\ ParseFailureDiscards
       /\ \A k \in 1 .. TakenUp :
             /\ (obs.buf[k].mm_ok /\ ~obs.buf[k].parse_ok)
                => k = TakenUp /\ obs.ret = -1
             /\ k < TakenUp => DeliveredAt(k)
       /\ TakenUp < Len(obs.buf)
          => NoConnOnPort \/ ~DeliveredAt(TakenUp)
       /\ TakenUp = 0 <=> NoConnOnPort

\* The first of two datagrams did not parse: packet_in returned -1 without
\* taking up the second, which names a connection of C1.
C16_ParseFailureEndsCall ==
    /\ PacketInDone
    /\ Len(obs.buf) = 2
    /\ ~obs.buf[1].parse_ok
    /\ lsquic_hash_find(engine.conns_hash, Cid(obs.buf[2].cid)) # NULL
    /\ TakenUp = 1
    /\ obs.errno = EINVAL
    /\ obs.ret = -1

\* Datagram k of the buffer is a stateless reset of the connection c: the
\* engine honours resets, the datagram is shaped like one, it was taken up
\* and matched no connection of C1, and its token is registered by c.
IsResetOf(k, c) ==
    /\ engine.settings.es_honor_prst
    /\ k <= TakenUp
    /\ obs.buf[k].mm_ok /\ obs.buf[k].parse_ok /\ ~obs.buf[k].gquic
    /\ obs.buf[k].srst_shape
    /\ ~DeliveredAt(k)
    /\ obs.buf[k].token = c
    /\ conns[c].st = "live"

\* stateless_reset was invoked once for datagram k, on the connection c.
ResetOnce(k, c) ==
    /\ EventsOf("stateless_reset", c) = 1
    /\ \E j \in 1 .. Len(obs.log) :
          obs.log[j] = Event("stateless_reset", c, k, 0)

InC2(c) == c \in HeapConns(engine.conns_tickable)

\* C17: a stateless reset invokes stateless_reset() exactly once on the
\* owner of the token, and when packet_in returns that connection is
\* TICKABLE and in C2.
C17_ResetTickable ==
    PacketInDone
    => \A k \in 1 .. Len(obs.buf), c \in Conns :
          IsResetOf(k, c)
          => /\ ResetOnce(k, c)
             /\ LSCONN_TICKABLE \in conns[c].cn_flags
             /\ InC2(c)

\* C17, as the code has it: the connection is TICKABLE and in C2 when
\* packet_in returns if it was before the reset, or if its is_tickable()
\* returns true after the reset; otherwise it stays out of C2.
C17_ResetTickableIfAsked ==
    [][(pc = "idle" /\ pc' = "ret" /\ proc'.caller = "packet_in")
       => \A k \in 1 .. Len(obs'.buf), c \in Conns :
             IsResetOf(k, c)'
             => /\ ResetOnce(k, c)'
                /\ InC2(c)' <=> LSCONN_TICKABLE \in conns'[c].cn_flags
                /\ LSCONN_TICKABLE \in conns'[c].cn_flags
                   <=> \/ LSCONN_TICKABLE \in conns[c].cn_flags
                       \/ obs'.buf[k].is_tickable
                       \/ EventsOf("packet_in", c)' > 0]_vars

\* A connection that was not TICKABLE was reset, answered that it is
\* tickable, and is TICKABLE and in C2 when packet_in has returned.
C17_ResetAndTickable ==
    /\ PacketInDone
    /\ \E c \in Conns :
          /\ IsResetOf(1, c)
          /\ ResetOnce(1, c)
          /\ obs.log[3] = Event("is_tickable", c, 1, 1)
          /\ LSCONN_TICKABLE \in conns[c].cn_flags
          /\ InC2(c)

\* The encryption of a packet of the connection c failed with
\* ENCPA_BADCRYPT in the call in progress.
BadCryptOn(c) == EventsOf(ENCPA_BADCRYPT, c) > 0

DeadlineFound ==
    \E k \in 1 .. Len(obs.log) :
        obs.log[k].ev = "check_deadline" /\ obs.log[k].v = 1

\* Entry k of the log is a flush, and the deadline is tested right after
\* the capabilities the flush calls.
TestedAfter(k) ==
    /\ k + obs.log[k].i + 1 <= Len(obs.log)
    /\ obs.log[k + obs.log[k].i + 1].ev = "check_deadline"

\* What follows a test that finds the deadline passed: PAST_DEADLINE is
\* set, packets_out is not called again in the call, the batch size is not
\* grown, and the connections that hold packets stay in C3.
AfterDeadline ==
    /\ \A k \in 1 .. Len(obs.log) :
          (obs.log[k].ev = "check_deadline" /\ obs.log[k].v = 1)
          => /\ ENG_PAST_DEADLINE \in engine.flags
             /\ \A j \in k + 1 .. Len(obs.log) : obs.log[j].ev # "packets_out"
    /\ (DeadlineFound /\ DrainOver)
       => /\ engine.batch_size <= obs.flush.batch_size
          /\ \A c \in Conns :
                (conns[c].st = "live" /\ conns[c].n_pkts > 0)
                => /\ c \in HeapConns(engine.conns_out)
                   /\ LSCONN_HAS_OUTGOING \in conns[c].cn_flags

\* The deadline of the call in progress is the time read at its start plus
\* es_proc_time_thresh.
DeadlineSet ==
    (InCall /\ proc.caller \in {"process_conns", "send_unsent_packets"})
    => engine.deadline = proc.now + engine.settings.es_proc_time_thresh

\* C19: with a non-zero es_proc_time_thresh the deadline is tested after
\* every batch flush; once a test finds the deadline passed, PAST_DEADLINE
\* is set, packets_out is not called again in that call, the batch size is
\* not grown in that drain and the connections that still hold packets
\* remain in C3 with HAS_OUTGOING set.
C19_Deadline ==
    engine.settings.es_proc_time_thresh # 0
    => /\ DeadlineSet
       /\ \A k \in 1 .. Len(obs.log) :
             obs.log[k].ev = "packets_out" => TestedAfter(k)
       /\ AfterDeadline

\* C19, as the code has it: the deadline is not tested after a full batch
\* that packets_out did not accept whole, which ends the drain by itself.
C19_DeadlineUnlessRefused ==
    engine.settings.es_proc_time_thresh # 0
    => /\ DeadlineSet
       /\ \A k \in 1 .. Len(obs.log) :
             obs.log[k].ev = "packets_out"
             => \/ TestedAfter(k)
                \/ /\ obs.log[k].v < obs.log[k].i
                   /\ obs.log[k].i = obs.flush.batch_size
                   /\ \A j \in k + 1 .. Len(obs.log) :
                         obs.log[j].ev \notin
                            {"check_deadline", "packets_out", "slot",
                             "next_packet_to_send"}
       /\ AfterDeadline

\* The deadline was found passed after a full batch accepted whole: the
\* drain ended there and the connection keeps a packet and its place in C3.
C19_StoppedAtDeadline ==
    /\ pc = "ret"
    /\ DrainOver
    /\ DeadlineFound
    /\ ENG_PAST_DEADLINE \in engine.flags
    /\ obs.po_calls = 1
    /\ obs.flush.n = obs.flush.batch_size
    /\ obs.flush.ret = obs.flush.n
    /\ engine.batch_size = obs.flush.batch_size
    /\ \E c \in Conns :
          /\ conns[c].n_pkts > 0
          /\ c \in HeapConns(engine.conns_out)

\* lsquic_engine_connect has returned.
ConnectDone == pc = "ret" /\ proc.caller = "connect"

ByAddr == ENG_CONNS_BY_ADDR \in engine.flags

\* The entries of C1 under the key of a local port.
OnPort(port) == {el \in engine.conns_hash : el[1] = sa2key(port)}

OnePerPort == \A port \in Conns : Cardinality(OnPort(port)) <= 1

\* C20: in by-address mode C1 holds at most one connection per local port
\* at all times, and a connect whose local port already maps to a
\* connection returns no connection, calls no connection constructor and
\* leaves n_conns, C1, C2, C3 and C4 as they were.
C20_OnePerPort ==
    /\ [](ByAddr => OnePerPort)
    /\ [][(/\ pc = "idle"
           /\ ConnectDone'
           /\ ByAddr
           /\ OnPort(obs'.port) # {})
          => /\ obs'.ret = NULL
             /\ obs'.log = <<>>
             /\ engine'.n_conns = engine.n_conns
             /\ engine'.conns_hash = engine.conns_hash
             /\ engine'.conns_tickable = engine.conns_tickable
             /\ engine'.conns_out = engine.conns_out
             /\ engine'.attq = engine.attq]_vars

\* A connect on the port of the only connection has been refused.
C20_SecondRefused ==
    /\ ConnectDone
    /\ ByAddr
    /\ OnPort(obs.port) # {}
    /\ obs.ret = NULL
    /\ engine.n_conns = 1
    /\ Unborn # {}

\* The key connection c is looked up under in C1 of engine e.
KeyOf(e, cn, c) ==
    IF ENG_CONNS_BY_ADDR \in e.flags THEN sa2key(cn[c].port) ELSE Cid(c)

ResolvableIn(e, cn, c) == lsquic_hash_find(e.conns_hash, KeyOf(e, cn, c)) = c

Resolvable(c) == ResolvableIn(engine, conns, c)

RefBits(c) == conns[c].cn_flags \cap CONN_REF_FLAGS

\* The constructor returned connection c in the call that has returned.
Constructed(c) == InSeq(obs.log, Event("client_new", c, -1, 1))

\* C21: a connect that succeeds returns a new connection whose membership
\* bits are exactly HASHED and TICKABLE, that is resolvable in C1 and once
\* in C2, with n_conns one higher; a connect that fails after the
\* constructor ran destroys the new connection and leaves n_conns as it was.
C21_ConnectBorn ==
    [][(pc = "idle" /\ ConnectDone')
       => /\ obs'.ret # NULL
              => /\ conns[obs'.ret].st = "none"
                 /\ conns'[obs'.ret].st = "live"
                 /\ conns'[obs'.ret].cn_flags \cap CONN_REF_FLAGS
                        = {LSCONN_HASHED, LSCONN_TICKABLE}
                 /\ ResolvableIn(engine', conns', obs'.ret)
                 /\ HeapCount(engine'.conns_tickable, obs'.ret) = 1
                 /\ engine'.n_conns = engine.n_conns + 1
          /\ \A c \in Conns :
                (Constructed(c)' /\ obs'.ret = NULL)
                => /\ conns'[c].st = "destroyed"
                   /\ conns'[c].n_destroyed = 1
                   /\ c \notin HashConns(engine'.conns_hash)
                   /\ HeapCount(engine'.conns_tickable, c) = 0
                   /\ engine'.n_conns = engine.n_conns]_vars

\* A connect has failed at the insertion into C1 and the next has
\* succeeded.
C21_FailedThenBorn ==
    /\ ConnectDone
    /\ obs.ret = 2
    /\ ByAddr
    /\ conns[1].st = "destroyed"
    /\ conns[1].n_destroyed = 1
    /\ engine.n_conns = 1
    /\ Resolvable(2)

\* A query of the named function has been answered.
Asked(fn) == pc = "ret" /\ proc.caller = fn

\* The difference a - b of two times is a value of a signed 32-bit integer,
\* and that value.
DiffFits(a, b) ==
    \/ a.hi = b.hi
    \/ a.hi - b.hi = 1 /\ a.lo - b.lo < 0
    \/ a.hi - b.hi = -1 /\ a.lo - b.lo >= 0

ExactDiff(a, b) ==
    IF a.hi = b.hi THEN a.lo - b.lo
    ELSE IF a.hi - b.hi = 1 THEN ((a.lo - b.lo) + 2147483647) + 1
    ELSE ((a.lo - b.lo) - 2147483647) - 1

Before(a, b) == a.hi < b.hi \/ (a.hi = b.hi /\ a.lo < b.lo)

\* The time earliest_adv_tick measures from now, when it measures one.
TimeAsked(q) ==
    IF ENPUB_CAN_SEND \in q.enp_flags THEN q.next_attq_time
    ELSE IF q.next_attq_time = NoTime THEN q.resume_sending_at
    ELSE IF Before(q.resume_sending_at, q.next_attq_time)
    THEN q.resume_sending_at
    ELSE q.next_attq_time

WorkAtHand(q) ==
    q.n_tickable # 0 \/ (ENG_PAST_DEADLINE \in q.flags /\ q.n_out # 0)

NothingQueued(q) ==
    ENPUB_CAN_SEND \in q.enp_flags /\ q.next_attq_time = NoTime

\* C22 as stated: earliest_adv_tick returns true with diff = 0 when C2 is
\* non-empty or PAST_DEADLINE is set and C3 is non-empty; otherwise false
\* if CAN_SEND is set and the ATTQ is empty; otherwise true with diff the
\* difference between now and the next ATTQ time (CAN_SEND set) or the
\* earlier of it and resume_sending_at (CAN_SEND clear).
C22_EarliestAdvTick ==
    Asked("earliest_adv_tick")
    => LET q == obs.query
       IN IF WorkAtHand(q) THEN obs.ret = 1 /\ q.diff = 0
          ELSE IF NothingQueued(q) THEN obs.ret = 0
          ELSE /\ obs.ret = 1
               /\ DiffFits(TimeAsked(q), q.now)
               /\ q.diff = ExactDiff(TimeAsked(q), q.now)

\* C22 amended: the same, diff being the difference whenever the difference
\* is a value of a signed 32-bit integer.
C22_EarliestAdvTickInt ==
    Asked("earliest_adv_tick")
    => LET q == obs.query
       IN IF WorkAtHand(q) THEN obs.ret = 1 /\ q.diff = 0
          ELSE IF NothingQueued(q) THEN obs.ret = 0
          ELSE /\ obs.ret = 1
               /\ DiffFits(TimeAsked(q), q.now)
                    => q.diff = ExactDiff(TimeAsked(q), q.now)

\* Sending is suspended and resumes before the next ATTQ time, which is
\* not the time asked about: the answer is the time until sending resumes.
C22_ResumeFirst ==
    /\ Asked("earliest_adv_tick")
    /\ ~WorkAtHand(obs.query)
    /\ ENPUB_CAN_SEND \notin obs.query.enp_flags
    /\ obs.query.next_attq_time = WideTime(1, 1)
    /\ obs.query.resume_sending_at = WideTime(1, 0)
    /\ obs.query.now = WideTime(0, 2147483647)
    /\ obs.ret = 1
    /\ obs.query.diff = 1

\* C27: count_attq(from_now) returns the number of ATTQ entries scheduled
\* before now + from_now, from_now being a signed offset: negative for a
\* time before now, positive for a time after it.
C27_CountAttqSigned ==
    Asked("count_attq")
    => LET q == obs.query
       IN obs.ret = Cardinality({el \in q.attq : el[1] < q.now + q.from_now})

\* What the claim lists of a settings record s checked with flags f.
WindowsOk(s) == s.es_cfcw >= LSQUIC_MIN_FCW /\ s.es_sfcw >= LSQUIC_MIN_FCW

VersionsOk(s) ==
    /\ s.es_versions \cap LSQUIC_SUPPORTED_VERSIONS # {}
    /\ s.es_versions \subseteq LSQUIC_SUPPORTED_VERSIONS

ScidLenOk(s, f) ==
    \/ s.es_scid_len \in 4 .. 18
    \/ s.es_scid_len = 0 /\ ENG_SERVER \notin f

Listed(s, f) ==
    WindowsOk(s) /\ VersionsOk(s) /\ s.es_idle_timeout <= 600 /\ ScidLenOk(s, f)

\* The three fields as the numbers they are: -1 stands for UINT_MAX, which
\* alone exceeds every limit of the model.
StreamsExceed(s) ==
    LET fields == {s.es_init_max_streams_bidi, s.es_init_max_streams_uni,
                   s.es_h3_placeholders}
    IN \/ \E x \in fields : x < 0
       \/ s.es_init_max_streams_bidi + s.es_init_max_streams_uni
            + s.es_h3_placeholders > H3_PRIO_MAX_ELEMS

\* The sum as the machine has it: modulo 2^32.
MachineSumExceeds(s) ==
    LET sum == s.es_init_max_streams_bidi + s.es_init_max_streams_uni
               + s.es_h3_placeholders
    IN sum < 0 \/ sum > H3_PRIO_MAX_ELEMS

\* C25 as stated: check_settings returns 0 exactly when the windows, the
\* versions, the idle timeout and the source CID length are as listed, and
\* -1 otherwise.
C25_ZeroIffListed ==
    Asked("check_settings")
    => /\ obs.ret \in {0, -1}
       /\ obs.ret = 0 <=> Listed(obs.query.settings, obs.query.flags)

\* C25 amended: check_settings returns 0 exactly when those hold and the
\* sum of the three stream fields, modulo 2^32, is at most the maximum of
\* the priority tree, and -1 otherwise.
C25_ZeroIffListedAndSum ==
    Asked("check_settings")
    => /\ obs.ret \in {0, -1}
       /\ obs.ret = 0 <=> /\ Listed(obs.query.settings, obs.query.flags)
                          /\ ~MachineSumExceeds(obs.query.settings)

\* A server's settings with no source connection ID, all else in order,
\* are rejected.
C25_ServerNoScid ==
    /\ Asked("check_settings")
    /\ obs.query.flags = {ENG_SERVER}
    /\ obs.query.settings.es_scid_len = 0
    /\ WindowsOk(obs.query.settings)
    /\ VersionsOk(obs.query.settings)
    /\ obs.query.settings.es_idle_timeout = 600
    /\ ~StreamsExceed(obs.query.settings)
    /\ obs.ret = -1

\* C26: check_settings rejects every settings record whose three stream
\* fields, added as the numbers they are, exceed the maximum of the
\* priority tree.
C26_SumRejected ==
    (Asked("check_settings") /\ StreamsExceed(obs.query.settings))
    => obs.ret = -1

\* A step of a hook called from a callback: nothing of the public call in
\* progress moves.  A step of a hook the host calls between public calls.
InCallHookStep ==
    /\ pc' = pc
    /\ pc \in {"tick", "coi", "ticked"}
    /\ UNCHANGED <<proc, ticked_conns, closed_conns, iter, out, clock>>
    /\ obs' = [obs EXCEPT !.requeue = obs'.requeue]

HostHookStep(fn) == pc = "idle" /\ pc' = "ret" /\ proc'.caller = fn

HookStep ==
    \/ InCallHookStep
    \/ HostHookStep("add_conn_to_tickable")
    \/ HostHookStep("add_conn_to_attq")

InProc == ENPUB_PROC \in engine.enp_flags

AttqOf(q, c) == {el \in q : el[2] = c}

\* A step changes the ATTQ entry of connection c or its ATTQ bit.
AttqChanged(c) ==
    \/ AttqOf(engine'.attq, c) # AttqOf(engine.attq, c)
    \/ (LSCONN_ATTQ \in conns'[c].cn_flags) # (LSCONN_ATTQ \in conns[c].cn_flags)

Insertable(c) ==
    conns[c].cn_flags \cap {LSCONN_TICKABLE, LSCONN_NEVER_TICKABLE} = {}

\* What a call of add_to_tickable for connection c would leave.
AfterHook(c) == lsquic_engine_add_conn_to_tickable(Cur, c)

\* C24: add_to_tickable changes nothing while PROC is set; with PROC clear
\* it puts the connection in C2 and sets TICKABLE exactly when neither
\* TICKABLE nor NEVER_TICKABLE is set, so that no call puts a connection
\* in C2 twice or puts in a destroyed one.
C24_TickableHook ==
    /\ [](\A c \in Conns :
            conns[c].st # "none"
            => /\ AfterHook(c).ob.failed = obs.failed
               /\ (InProc \/ ~Insertable(c)) => AfterHook(c) = Cur
               /\ (~InProc /\ Insertable(c))
                  => /\ HeapCount(AfterHook(c).e.conns_tickable, c) = 1
                     /\ AfterHook(c).cn[c].cn_flags
                            = conns[c].cn_flags \cup {LSCONN_TICKABLE}
               /\ conns[c].st = "destroyed" => AfterHook(c) = Cur)
    /\ [][/\ (InCallHookStep /\ InProc)
             => /\ engine'.conns_tickable = engine.conns_tickable
                /\ \A c \in Conns :
                      (LSCONN_TICKABLE \in conns'[c].cn_flags)
                          = (LSCONN_TICKABLE \in conns[c].cn_flags)
          /\ HostHookStep("add_conn_to_tickable")
             => LET c == obs'.query.conn
                IN IF ~InProc /\ Insertable(c)
                   THEN /\ conns[c].st = "live"
                        /\ HeapCount(engine.conns_tickable, c) = 0
                        /\ HeapCount(engine'.conns_tickable, c) = 1
                        /\ Len(engine'.conns_tickable)
                              = Len(engine.conns_tickable) + 1
                        /\ conns'[c].cn_flags
                              = conns[c].cn_flags \cup {LSCONN_TICKABLE}
                   ELSE engine' = engine /\ conns' = conns]_vars

\* The host has made tickable a connection that was ticked before and
\* waits in the ATTQ.
C24_MadeTickable ==
    /\ Asked("add_conn_to_tickable")
    /\ ~InProc
    /\ conns[obs.query.conn].cn_last_ticked > 0
    /\ {LSCONN_TICKABLE, LSCONN_ATTQ} \subseteq conns[obs.query.conn].cn_flags
    /\ HeapCount(engine.conns_tickable, obs.query.conn) = 1
    /\ engine.conns_tickable = <<<<conns[obs.query.conn].cn_last_ticked,
                                  obs.query.conn>>>>

\* The collections connection c is in agree with its membership bits.
BitsAgree(c) ==
    /\ Resolvable(c) <=> LSCONN_HASHED \in conns[c].cn_flags
    /\ c \in HashConns(engine.conns_hash) <=> LSCONN_HASHED \in conns[c].cn_flags
    /\ HeapCount(engine.conns_tickable, c)
         = IF LSCONN_TICKABLE \in conns[c].cn_flags THEN 1 ELSE 0
    /\ HeapCount(engine.conns_out, c)
         = IF LSCONN_HAS_OUTGOING \in conns[c].cn_flags THEN 1 ELSE 0
    /\ c \in AttqConns(engine.attq) <=> LSCONN_ATTQ \in conns[c].cn_flags

TransientBits ==
    {LSCONN_TICKED, LSCONN_CLOSING, LSCONN_COI_ACTIVE, LSCONN_COI_INACTIVE}

RefAsserts ==
    {"engine_incref_conn: flag is set", "engine_decref_conn: flag is not set",
     "engine_decref_conn: closing and hashed"}

\* C29: whatever the connections answer, every incref finds its bit clear,
\* every decref finds its bit set and every decref of CLOSING finds HASHED
\* clear: no assertion of engine_incref_conn or engine_decref_conn fails.
C29_RefAssertsHold == obs.failed \notin RefAsserts

\* A connection has been closed by its tick and destroyed in the same
\* call of process_conns, its bits cleared one by one.
C29_ClosedAndFreed ==
    /\ pc = "ret"
    /\ proc.caller = "process_conns"
    /\ obs.failed = ""
    /\ \E c \in Conns :
          /\ conns[c].st = "destroyed"
          /\ conns[c].n_destroyed = 1
          /\ conns[c].cn_flags \cap CONN_REF_FLAGS = {}
          /\ conns[c].cn_last_ticked = proc.now

\* process_conns has returned.
ProcessConnsDone == pc = "ret" /\ proc.caller = "process_conns"

\* Connection c was ticked in the call and closed neither by its tick nor
\* by a packet that could not be encrypted.
TickedOpen(c) ==
    /\ InSeq(obs.log, Event("tick", c, -1, 0))
    /\ ~InSeq(obs.log, Event(ENCPA_BADCRYPT, c, -1, 0))

\* What the rescheduling loop was answered for connection c.
SaidTickable(c) == InSeq(obs.log, Event("is_tickable", c, -1, 1))

NextTickTimeOf(c) ==
    {e.v : e \in {obs.log[k] : k \in
                    {j \in 1 .. Len(obs.log) :
                        obs.log[j].ev = "next_tick_time" /\ obs.log[j].conn = c}}}

AttqAddFailed(c) == InSeq(obs.log, Event("attq_add", c, -1, 0))

InC4At(c, t) == <<t, c>> \in engine.attq

RequeuedLater(c) ==
    {r \in obs.requeue :
        /\ r.conn = c
        /\ \E k \in 1 .. r.at :
              /\ obs.log[k].ev = "is_tickable"
              /\ obs.log[k].conn = c
              /\ obs.log[k].i = -1}

TickedClosed(c) == InSeq(obs.log, Event("tick", c, -1, 1))

\* C31: when the process_conns call in which the tick of a connection
\* returned CLOSE returns, the connection is not in C1, C2 or C4; it is
\* destroyed if it holds no unsent packet, and otherwise it is referenced
\* by C3 alone.
C31_ClosedByTick ==
    ProcessConnsDone
    => \A c \in Conns :
          TickedClosed(c)
          => /\ c \notin HashConns(engine.conns_hash)
             /\ c \notin HeapConns(engine.conns_tickable)
             /\ c \notin AttqConns(engine.attq)
             /\ conns[c].n_pkts = 0 => conns[c].st = "destroyed"
             /\ conns[c].n_pkts > 0
                => /\ conns[c].st = "live"
                   /\ RefBits(c) = {LSCONN_HAS_OUTGOING}

\* The connections the call delivered a datagram to, and whether a lookup
\* of the call found a connection at all.
DeliveredTo == {c \in Conns : EventsOf("packet_in", c) > 0}

NoneFound == Events("packet_in") = <<>> /\ Events("stateless_reset") = <<>>

\* C32: when packet_in returns, every connection it delivered a datagram to
\* is TICKABLE and exactly once in C2, whether it was there before or not,
\* and holds the local address, the peer address and the peer context of
\* the call; a call whose lookups found no connection changes no
\* membership mask and no collection.
C32_DeliveredIsTickable ==
    [][(pc = "idle" /\ PacketInDone')
       => /\ \A c \in DeliveredTo' :
                /\ c \in HashConns(engine.conns_hash)
                /\ LSCONN_TICKABLE \in conns'[c].cn_flags
                /\ HeapCount(engine'.conns_tickable, c) = 1
                /\ LSCONN_TICKABLE \in conns[c].cn_flags
                   => engine'.conns_tickable = engine.conns_tickable
                /\ conns'[c].port = obs'.port
                /\ conns'[c].sa_peer = proc'.sa_peer
                /\ conns'[c].cn_peer_ctx = proc'.peer_ctx
                /\ conns'[c].cn_flags \ {LSCONN_TICKABLE}
                      = conns[c].cn_flags \ {LSCONN_TICKABLE}
          /\ NoneFound'
             => /\ \A c \in Conns : conns'[c].cn_flags = conns[c].cn_flags
                /\ Collections(Cur)' = Collections(Cur)]_vars

\* A connection that was ticked gets the two datagrams of a buffer, from
\* another peer and on another local port than it connected with: it is
\* in C2 once.
C32_TwoDelivered ==
    /\ PacketInDone
    /\ \E c \in Conns :
          /\ EventsOf("packet_in", c) = 2
          /\ conns[c].cn_last_ticked > 0
          /\ engine.conns_tickable = <<<<conns[c].cn_last_ticked, c>>>>
          /\ conns[c].cn_flags = {LSCONN_HASHED, LSCONN_TICKABLE}
          /\ conns[c].port = 2
          /\ conns[c].sa_peer = 2
          /\ conns[c].cn_peer_ctx = 2

\* The places of the log at which esf_encrypt_packet returned ENCPA_NOMEM,
\* the entries ev of the log after place k, and the slots of the batch that
\* were filled and not yet submitted at place k.
NoMemAt == {k \in 1 .. Len(obs.log) : obs.log[k].ev = ENCPA_NOMEM}

After(k, ev) == {j \in (k + 1) .. Len(obs.log) : obs.log[j].ev = ev}

PendingAt(k) ==
    Cardinality({j \in 1 .. k :
                    /\ obs.log[j].ev = "slot"
                    /\ \A m \in j .. k : obs.log[m].ev # "packets_out"})

\* C33: after a drain in which esf_encrypt_packet returned ENCPA_NOMEM,
\* the connection was handed the packet back with packet_not_sent at once,
\* no connection was asked for a packet after that, the packets batched
\* before were submitted in one call of packets_out (none if none was
\* batched), and the connection lives, holds the packet and is once in C3
\* with HAS_OUTGOING set.
C33_NoMemSuspends ==
    DrainOver
    => \A k \in NoMemAt :
          LET c == obs.log[k].conn
          IN /\ k < Len(obs.log)
             /\ obs.log[k + 1] = Event("packet_not_sent", c, -1, 0)
             /\ After(k, "next_packet_to_send") = {}
             /\ After(k, "slot") = {}
             /\ Cardinality(After(k, "packets_out"))
                   = (IF PendingAt(k) > 0 THEN 1 ELSE 0)
             /\ \A j \in After(k, "packets_out") : obs.log[j].i = PendingAt(k)
             /\ conns[c].st = "live"
             /\ conns[c].n_pkts > 0
             /\ LSCONN_HAS_OUTGOING \in conns[c].cn_flags
             /\ HeapCount(engine.conns_out, c) = 1

\* Two connections: the packet of the first is batched, the encryption of
\* the packet of the second finds no memory; the batch of one packet is
\* submitted and accepted, and both connections are in C3.
C33_OneBatchedOneSuspended ==
    /\ DrainOver
    /\ \E k \in NoMemAt :
          /\ PendingAt(k) = 1
          /\ \E j \in After(k, "packets_out") :
                obs.log[j].i = 1 /\ obs.log[j].v = 1
          /\ \E j \in 1 .. k : obs.log[j].ev = "slot"
                                /\ obs.log[j].conn # obs.log[k].conn
          /\ HeapConns(engine.conns_out) = {1, 2}

\* The connections a packet of the batch was handed back to because
\* packets_out did not accept it.
HandedBack ==
    {obs.log[k].conn : k \in {j \in 1 .. Len(obs.log) :
                                /\ obs.log[j].ev = "packet_not_sent"
                                /\ obs.log[j].i >= 0}}

\* C34: after an egress drain, every connection that packets_out refused a
\* packet of lives, has HAS_OUTGOING set and is once in C3, on no list of
\* the iterator, whether the iterator had set it aside or not.
C34_RefusedStaysInC3 ==
    DrainOver
    => \A c \in HandedBack :
          /\ conns[c].st = "live"
          /\ conns[c].n_pkts > 0
          /\ LSCONN_HAS_OUTGOING \in conns[c].cn_flags
          /\ HeapCount(engine.conns_out, c) = 1
          /\ conns[c].cn_flags \cap {LSCONN_COI_ACTIVE, LSCONN_COI_INACTIVE} = {}

\* The loop ended with every connection set aside, the batch was refused
\* and its packets handed back: the connections are in C3 again.
C34_Reactivated ==
    /\ DrainOver
    /\ Events("coi_end") # <<>>
    /\ HandedBack # {}
    /\ \A c \in HandedBack : LSCONN_EVANESCENT \notin conns[c].cn_flags
    /\ HandedBack \subseteq HeapConns(engine.conns_out)

\* The calls of capability ev on connection c that the log holds.
CallsOn(ev, c) ==
    Cardinality({k \in 1 .. Len(obs.log) :
                    obs.log[k].ev = ev /\ obs.log[k].conn = c})

\* The entries of the log about slot i of the batch and connection c: the
\* packets that took the slot, and the packets of the slot answered for.
SlotTaken(c, i, k) ==
    Cardinality({j \in 1 .. k : obs.log[j] = Event("slot", c, i, 0)})

SlotAnswered(c, i, k) ==
    Cardinality({j \in 1 .. k :
                    /\ obs.log[j].conn = c /\ obs.log[j].i = i
                    /\ obs.log[j].ev \in {"packet_sent", "packet_not_sent"}})

\* A packet handed out is encrypted at once, and then takes a slot of the
\* batch or is handed back.
TakenThenPlaced ==
    \A k \in 1 .. Len(obs.log) :
        obs.log[k].ev = "next_packet_to_send"
        => /\ k + 2 <= Len(obs.log)
           /\ obs.log[k + 1].conn = obs.log[k].conn
           /\ obs.log[k + 1].ev \in {ENCPA_OK, ENCPA_NOMEM, ENCPA_BADCRYPT}
           /\ obs.log[k + 2].conn = obs.log[k].conn
           /\ IF obs.log[k + 1].ev = ENCPA_OK
              THEN obs.log[k + 2].ev = "slot"
              ELSE obs.log[k + 2] = Event("packet_not_sent", obs.log[k].conn,
                                          -1, 0)

\* C35: packets are conserved in the egress drain.  A packet handed out
\* by next_packet_to_send is handed back at once or takes a slot of the
\* batch; the packet of a slot is answered for by packet_sent or
\* packet_not_sent once, before the slot is taken again;
\* the packets not yet answered for are those in the batch, and when the
\* drain is over there is none.
C35_PacketsConserved ==
    (InCall /\ proc.caller \in {"process_conns", "send_unsent_packets"})
    => /\ TakenThenPlaced
       /\ \A c \in Conns :
          /\ \A i \in 0 .. MaxBatchPkts :
                /\ SlotAnswered(c, i, Len(obs.log))
                      <= SlotTaken(c, i, Len(obs.log))
                /\ SlotTaken(c, i, Len(obs.log))
                      <= SlotAnswered(c, i, Len(obs.log)) + 1
          /\ CallsOn("next_packet_to_send", c)
                = CallsOn("packet_sent", c) + CallsOn("packet_not_sent", c)
                    + Count(out.batch, c)
          /\ DrainOver => Count(out.batch, c) = 0

\* A drain in which a connection handed out two packets, one of which was
\* sent and the other handed back.
C35_OneSentOneNot ==
    /\ DrainOver
    /\ \E c \in Conns :
          /\ CallsOn("next_packet_to_send", c) = 2
          /\ CallsOn("packet_sent", c) = 1
          /\ CallsOn("packet_not_sent", c) = 1

\* ------------------------------------------------------------------ C36

\* C36: every egress drain terminates.  A connection hands out no more
\* than max_pkts packets before next_packet_to_send returns none, so the
\* loop of send_packets_out, once entered, is left, also when a
\* connection flagged EVANESCENT answers none.
C36_DrainTerminates == (pc = "coi") ~> (pc # "coi")

\* ------------------------------------------------------------------ C37

\* What lsquic_engine_earliest_adv_tick returns when it is called on the
\* engine as it is, at the time of the clock.
AdvTickNow ==
    lsquic_engine_earliest_adv_tick(
        engine.flags, engine.enp_flags, lsquic_mh_count(engine.conns_out),
        lsquic_mh_count(engine.conns_tickable),
        IF attq_next_time(engine.attq) = NULL THEN NoTime
        ELSE WideTime(0, attq_next_time(engine.attq)),
        WideTime(0, engine.resume_sending_at), WideTime(0, clock))

\* C37: no stranded work.  Between public calls, whenever C3 is not
\* empty, lsquic_engine_earliest_adv_tick returns true.
C37_NoStrandedWork ==
    (pc = "idle" /\ lsquic_mh_count(engine.conns_out) > 0)
    => AdvTickNow.ret = 1

\* ------------------------------------------------------------------ C38

\* C38: in the last loop of process_connections every connection on the
\* ticked list has TICKED and another of the six membership bits set, so
\* the decref of TICKED does not destroy it.
C38_TickedNeverLast ==
    pc = "ticked"
    => \A k \in 1 .. Len(ticked_conns) :
          /\ conns[ticked_conns[k]].st = "live"
          /\ LSCONN_TICKED \in RefBits(ticked_conns[k])
          /\ RefBits(ticked_conns[k]) # {LSCONN_TICKED}

\* ------------------------------------------------------------------ C39

\* The slots connection c occupies in a heap.
HeapSlotsOf(heap, c) == Cardinality({j \in 1 .. Len(heap) : heap[j][2] = c})

\* The heaps fit into their halves of the allocation, a live connection
\* has at most one slot in each, and once a connect has constructed a
\* connection n_conns, an unsigned, is no larger than the half-capacity.
HeapsFit ==
    /\ lsquic_mh_count(engine.conns_tickable) <= engine.mh_nalloc
    /\ lsquic_mh_count(engine.conns_out) <= engine.mh_nalloc
    /\ \A c \in Conns :
          conns[c].st = "live"
          => /\ HeapSlotsOf(engine.conns_tickable, c) <= 1
             /\ HeapSlotsOf(engine.conns_out, c) <= 1
    /\ (\E c \in Conns : conns[c].st # "none")
       => ~UnsignedLT(engine.mh_nalloc, engine.n_conns)

\* A step that changes the half-capacity makes it 4 if it was 0 and
\* doubles it otherwise, is taken when n_conns equals it, and keeps every
\* element of both heaps.
HeapsGrow ==
    engine'.mh_nalloc # engine.mh_nalloc
    => /\ engine'.mh_nalloc = IF engine.mh_nalloc = 0 THEN 4
                              ELSE 2 * engine.mh_nalloc
       /\ engine.n_conns = engine.mh_nalloc
       /\ engine'.conns_out = engine.conns_out
       /\ \A j \in 1 .. Len(engine.conns_tickable) :
             \E k \in 1 .. Len(engine'.conns_tickable) :
                engine'.conns_tickable[k] = engine.conns_tickable[j]

====
